---- MODULE Spec2Model ----
(***************************************************************************)
(* A model of the pantry key-value store: an in-memory map of expiring     *)
(* items guarded by a sync.RWMutex, a background sweeper goroutine, and    *)
(* the file-per-key persistence of Result.Persist / Pantry.Load.           *)
(*                                                                         *)
(* The repository holds two constructors.  New() of the persistence era    *)
(* (variant "close") gives Set(key, value, ttl) returning a Result, Load   *)
(* and Close; New(ctx, expiration) (variant "ctx") gives Set(key, value)   *)
(* with a store-wide expiration, the iterators Keys/Values/All and a       *)
(* sweeper that is stopped by cancelling the context.  Init picks the      *)
(* variant; every action is translated from the variant's source.          *)
(***************************************************************************)
EXTENDS Integers, FiniteSets, Sequences, TLC

\* ------------------------------------------------------------- bounds
Keys == {"k1", "k2"}
Values == {1, 2}
DiskValues == {1}
MaxTime == 2
MaxTTL == 1
TTLs == (-1)..MaxTTL
ConcTTLs == {0, MaxTTL}
Clients == {"g1", "g2"}
\* The goroutines that have locals: the clients and the sweeper.
Goroutines == Clients \cup {"sw"}
\* The Set calls of a client that never gives an item time to live: the value
\* tells the ttl it was set with.
NonPositive == {[value |-> 1, ttl |-> 0], [value |-> 2, ttl |-> -1]}

\* ------------------------------------------------------------- data
ZeroValue == 0

Item(v, e) == [Value |-> v, Expires |-> e]

ZeroItem == Item(ZeroValue, 0)

EmptyStore == << >>

KeyOrder == <<"k1", "k2">>

NoWrite == [op |-> "none"]

NoLoc == [key |-> "", item |-> ZeroItem, kind |-> "", visited |-> {}, yielded |-> {},
          out |-> << >>, todo |-> << >>, began |-> {}]

NoRet == [op |-> ""]

\* A second store before New has built it.
NoPeer == [path |-> "", store |-> << >>, files |-> << >>, dirExists |-> FALSE,
           kept |-> NoRet, closed |-> FALSE]

NewMutex == [writer |-> "none", held |-> FALSE, readers |-> [g \in Clients |-> 0]]

VARIABLES
  now,         \* time.Now().UnixNano(), in ticks
  store,       \* pantry.store: a function from the keys present to their items
  mutex,       \* pantry.mutex
  pc,          \* position of each client goroutine
  loc,         \* locals of the call each client goroutine is in
  ret,         \* what the last completed call of each client returned
  swpc,        \* position of the sweeper goroutine
  ctxDone,     \* ctx.Done() is closed
  variant,     \* which New built the store
  expiration,  \* pantry.expiration (variant "ctx")
  owned,       \* the keys each client goroutine works on
  path,        \* pantry.persistencePath ("" when persistence is off)
  dirExists,   \* the persistence directory exists on disk
  files,       \* the files of the persistence directory: name -> content
  last,        \* history: per key, the last completed write that touched it ("none":
               \* untouched since New, "Restart": untouched since the restart)
  wrote,       \* history: per key, the item of the set outcome its file holds
  persisted,   \* history: per audited key, what the last Persist that returned nil did:
               \* "set" (the snapshot was the key's current entry), "stale" (it was
               \* not), "remove"; "none" before any
  audit,       \* history: the keys whose Persist calls persisted and last follow
  kept,        \* the *Result each client goroutine holds on to from an earlier call
  watch,       \* history: the keys whose sightings sawExpired follows
  peer,        \* a second store of the same process: its persistencePath, its map,
               \* the *Result its client holds, whether it was closed, and the
               \* directory of its path when that is not the directory of path
  sawExpired   \* history: per watched key, "no" after a Set of it; "seen" once a Get has found
               \* it expired, "seen_earlier" once the clock has moved on from there,
               \* "missed_again" once a Get has missed it then; "reloaded" and
               \* "reloaded_earlier" once Load has stored the key after the sighting

\* What no operation of the store writes: its configuration, the choice of
\* the keys the histories follow, and the fields of the second store.
config == <<variant, expiration, owned, path, watch, audit, peer>>

disk == <<dirExists, files, wrote, persisted>>

hist == <<last, sawExpired>>

vars == <<now, store, mutex, pc, loc, ret, kept, swpc, ctxDone, hist, config, disk>>

\* ------------------------------------------------------------- sync.RWMutex
NoReaders(m) == \A g \in Clients : m.readers[g] = 0

\* CanRLock as a bug would have it: a reader does not wait for a writer.
CanRLockAlways(m) == TRUE

CanRLock(m) == m.writer = "none"

RLocked(m, g) == [m EXCEPT !.readers[g] = @ + 1]

RUnlocked(m, g) ==
  LET r == [m.readers EXCEPT ![g] = @ - 1]
  IN  [m EXCEPT !.readers = r,
                !.held = (m.writer # "none" /\ \A x \in Clients : r[x] = 0)]

CanLock(m) == m.writer = "none"

\* Locked as a bug would have it: the writer does not wait for the readers.
LockedAtOnce(m, g) == [m EXCEPT !.writer = g, !.held = TRUE]

Locked(m, g) == [m EXCEPT !.writer = g, !.held = NoReaders(m)]

HoldsLock(m, g) == m.writer = g /\ m.held

Unlocked(m) == [m EXCEPT !.writer = "none", !.held = FALSE]

\* ------------------------------------------------------------- the map
Lookup(s, k) ==
  IF k \in DOMAIN s THEN [item |-> s[k], found |-> TRUE]
                    ELSE [item |-> ZeroItem, found |-> FALSE]

\* Put as a bug would have it: an existing entry is not replaced.
PutIfAbsent(s, k, it) ==
  [x \in (DOMAIN s) \cup {k} |-> IF x \in DOMAIN s THEN s[x] ELSE it]

Put(s, k, it) == [x \in (DOMAIN s) \cup {k} |-> IF x = k THEN it ELSE s[x]]

\* Delete as a bug would have it: the entry stays.
DeleteNothing(s, k) == s

Delete(s, k) == [x \in (DOMAIN s) \ {k} |-> s[x]]

\* IsExpired as bugs would have it: the comparison turned round; no filter at all.
IsExpiredFlipped(it, t) == t < it.Expires

IsExpiredNever(it, t) == FALSE

IsExpired(it, t) == t > it.Expires

\* ExpiresAt as a bug would have it: a negative ttl counts as none.
ExpiresAtClamped(t, ttl) == t + (IF ttl < 0 THEN 0 ELSE ttl)

ExpiresAt(t, ttl) == t + ttl

\* GetResult as a bug would have it: the expired item's value is handed out
\* next to found = false.
GetResultStale(s, k, t) ==
  [value |-> IF k \in DOMAIN s THEN s[k].Value ELSE ZeroValue,
   found |-> k \in DOMAIN s /\ ~(t > s[k].Expires)]

GetResult(s, k, t) ==
  LET l == Lookup(s, k)
  IN  IF l.found /\ IsExpired(l.item, t)
        THEN [value |-> ZeroValue, found |-> FALSE]
        ELSE [value |-> l.item.Value, found |-> l.found]

\* Swept as a bug would have it: an item is deleted at its expiration already,
\* when Get still finds it.
SweptAtDeadline(s, t) == [x \in {k \in DOMAIN s : t < s[k].Expires} |-> s[x]]

\* Swept as a bug would have it: the scan deletes nothing.
SweptNothing(s, t) == s

Swept(s, t) == [x \in {k \in DOMAIN s : ~IsExpired(s[k], t)} |-> s[x]]

\* ------------------------------------------------------------- encoding/gob
\* gob sends a struct as its non-zero fields; the decoder fills a zero Item.
\* Encode as a bug would have it: the expiration is not written.
EncodeValueOnly(it) ==
  [kind |-> "gob", fields |-> {f \in {<<"Value", it.Value>>} : f[2] # 0}]

Encode(it) ==
  [kind |-> "gob",
   fields |-> {f \in {<<"Value", it.Value>>, <<"Expires", it.Expires>>} : f[2] # 0}]

\* Bytes that are not a gob stream of an Item.
Junk == [kind |-> "junk", fields |-> {}]

\* Decode as a bug would have it: the error of decoder.Decode is dropped.
DecodesAnything(content) == TRUE

Decodes(content) == content.kind = "gob"

Field(content, name, zero) ==
  IF \E f \in content.fields : f[1] = name
    THEN (CHOOSE f \in content.fields : f[1] = name)[2]
    ELSE zero

\* Decode as a bug would have it: the expiration is not read back.
DecodeValueOnly(content) == Item(Field(content, "Value", ZeroValue), 0)

Decode(content) == Item(Field(content, "Value", ZeroValue), Field(content, "Expires", 0))

\* ioutil.ReadDir returns the entries sorted by file name.
SortedNames(names) == SelectSeq(KeyOrder, LAMBDA k : k \in names)

\* ------------------------------------------------------------- initial state
InitCommon ==
  /\ now = 0
  /\ store = EmptyStore
  /\ mutex = NewMutex
  /\ pc = [g \in Clients |-> "idle"]
  /\ loc = [g \in Goroutines |-> NoLoc]
  /\ ret = [g \in Clients |-> NoRet]
  /\ swpc = "select"
  /\ ctxDone = FALSE
  /\ dirExists = FALSE
  /\ files = EmptyStore
  /\ wrote = EmptyStore
  /\ persisted = [k \in Keys |-> "none"]
  /\ kept = [g \in Clients |-> NoRet]
  /\ peer = NoPeer
  /\ last = [k \in Keys |-> NoWrite]
  /\ sawExpired = [k \in Keys |-> "no"]

\* New(); one client goroutine.
Init ==
  /\ InitCommon
  /\ variant = "close"
  /\ expiration = 0
  /\ path = ""
  /\ owned = [g \in Clients |-> IF g = "g1" THEN Keys ELSE {}]
  /\ watch = {}
  /\ audit = {}

\* New() followed, or not, by WithPersistence(path); one client goroutine.
InitDisk ==
  /\ InitCommon
  /\ variant = "close"
  /\ expiration = 0
  /\ path \in {"", "dir"}
  /\ owned = [g \in Clients |-> IF g = "g1" THEN Keys ELSE {}]
  /\ \E k \in Keys : watch = {k}
  /\ audit = {}

\* The same, with the Persist calls of one key followed.
InitPersist ==
  /\ InitCommon
  /\ variant = "close"
  /\ expiration = 0
  /\ path \in {"", "dir"}
  /\ owned = [g \in Clients |-> IF g = "g1" THEN Keys ELSE {}]
  /\ watch = {}
  /\ \E k \in Keys : audit = {k}

\* New().WithPersistence(path) on a directory other programs write to as well.
InitLoad ==
  /\ InitCommon
  /\ variant = "close"
  /\ expiration = 0
  /\ path = "dir"
  /\ owned = [g \in Clients |-> IF g = "g1" THEN Keys ELSE {}]
  /\ watch = {}
  /\ audit = {}

\* New().WithPersistence(path); the client goroutine works on one key and may
\* hold on to a Result.
InitStale ==
  /\ InitCommon
  /\ variant = "close"
  /\ expiration = 0
  /\ path = "dir"
  /\ owned = [g \in Clients |-> IF g = "g1" THEN {"k1"} ELSE {}]
  /\ watch = {}
  /\ audit = {"k1"}

\* Two stores built by New().WithPersistence: this one on "dir", the second
\* one on the same directory or on another; one client goroutine, one key.
InitPeers ==
  /\ now = 0
  /\ store = EmptyStore
  /\ mutex = NewMutex
  /\ pc = [g \in Clients |-> "idle"]
  /\ loc = [g \in Goroutines |-> NoLoc]
  /\ ret = [g \in Clients |-> NoRet]
  /\ swpc = "select"
  /\ ctxDone = FALSE
  /\ dirExists = FALSE
  /\ files = EmptyStore
  /\ wrote = EmptyStore
  /\ persisted = [k \in Keys |-> "none"]
  /\ kept = [g \in Clients |-> NoRet]
  /\ last = [k \in Keys |-> NoWrite]
  /\ sawExpired = [k \in Keys |-> "no"]
  /\ variant = "close"
  /\ expiration = 0
  /\ path = "dir"
  /\ owned = [g \in Clients |-> IF g = "g1" THEN {"k1"} ELSE {}]
  /\ watch = {}
  /\ audit = {}
  /\ \E p \in {"dir", "other"} : peer = [NoPeer EXCEPT !.path = p]

\* New(ctx, expiration); one client goroutine.
InitCtx ==
  /\ InitCommon
  /\ variant = "ctx"
  /\ expiration \in TTLs
  /\ path = ""
  /\ owned = [g \in Clients |-> IF g = "g1" THEN Keys ELSE {}]
  /\ watch = {}
  /\ audit = {}

\* New(ctx, expiration) of the store that has GetAll; one client goroutine.
InitGetAll ==
  /\ InitCommon
  /\ variant = "getall"
  /\ expiration \in TTLs
  /\ path = ""
  /\ owned = [g \in Clients |-> IF g = "g1" THEN Keys ELSE {}]
  /\ watch = {}
  /\ audit = {}

\* New(ctx, expiration); one goroutine enumerates, the other writes.
InitEnum ==
  /\ InitCommon
  /\ variant = "ctx"
  /\ expiration \in TTLs
  /\ path = ""
  /\ owned = [g \in Clients |-> IF g = "g1" THEN {} ELSE Keys]
  /\ watch = {}
  /\ audit = {}

\* New(); each client goroutine works on its own key.
InitConc ==
  /\ InitCommon
  /\ variant = "close"
  /\ expiration = 0
  /\ path = ""
  /\ owned = [g \in Clients |-> IF g = "g1" THEN {"k1"} ELSE {"k2"}]
  /\ watch = {}
  /\ audit = {}

\* ------------------------------------------------------------- the clock
Tick ==
  /\ now < MaxTime
  /\ now' = now + 1
  /\ sawExpired' = [k \in Keys |->
                      CASE sawExpired[k] = "seen" -> "seen_earlier"
                        [] sawExpired[k] = "reloaded" -> "reloaded_earlier"
                        [] OTHER -> sawExpired[k]]
  /\ UNCHANGED <<store, mutex, pc, loc, ret, swpc, ctxDone, last, config, kept, disk>>

\* A call that does nothing before it takes the mutex is followed from the
\* moment its Lock() or RLock() goes through: a goroutine queueing for the
\* mutex has done nothing yet.  A Lock() that has announced itself and waits
\* for the readers to leave is followed (the mutex has a writer that does not
\* hold it yet).

\* ------------------------------------------------------------- Get
GetCall(g, k) ==
  /\ pc[g] = "idle"
  /\ CanRLock(mutex)
  /\ mutex' = RLocked(mutex, g)
  /\ pc' = [pc EXCEPT ![g] = "get_read"]
  /\ loc' = [loc EXCEPT ![g] = [NoLoc EXCEPT !.key = k]]
  /\ ret' = [ret EXCEPT ![g] = NoRet]
  /\ UNCHANGED <<now, store, swpc, ctxDone, hist, config, kept, disk>>

\* GetRead as a bug would have it: what has expired is deleted on the way.
GetReadEvicts(g) ==
  /\ pc[g] = "get_read"
  /\ LET k == loc[g].key
         r == GetResult(store, k, now)
     IN  /\ ret' = [ret EXCEPT ![g] = [op |-> "Get", key |-> k,
                                       value |-> r.value, found |-> r.found]]
         /\ sawExpired' =
              IF r.found THEN sawExpired
              ELSE IF sawExpired[k] \in {"seen_earlier", "missed_again"}
                THEN [sawExpired EXCEPT ![k] = "missed_again"]
              ELSE IF k \in DOMAIN store /\ k \in watch /\ sawExpired[k] # "seen"
                THEN [sawExpired EXCEPT ![k] = "seen"]
              ELSE sawExpired
  /\ mutex' = RUnlocked(mutex, g)
  /\ pc' = [pc EXCEPT ![g] = "idle"]
  /\ loc' = [loc EXCEPT ![g] = NoLoc]
  /\ store' = Swept(store, now)
  /\ UNCHANGED <<now, swpc, ctxDone, last, config, kept, disk>>

GetRead(g) ==
  /\ pc[g] = "get_read"
  /\ LET k == loc[g].key
         r == GetResult(store, k, now)
     IN  /\ ret' = [ret EXCEPT ![g] = [op |-> "Get", key |-> k,
                                       value |-> r.value, found |-> r.found]]
         /\ sawExpired' =
              IF r.found THEN sawExpired
              ELSE IF sawExpired[k] \in {"seen_earlier", "missed_again"}
                THEN [sawExpired EXCEPT ![k] = "missed_again"]
              ELSE IF k \in DOMAIN store /\ k \in watch /\ sawExpired[k] # "seen"
                THEN [sawExpired EXCEPT ![k] = "seen"]
              ELSE sawExpired
  /\ mutex' = RUnlocked(mutex, g)
  /\ pc' = [pc EXCEPT ![g] = "idle"]
  /\ loc' = [loc EXCEPT ![g] = NoLoc]
  /\ UNCHANGED <<now, store, swpc, ctxDone, last, config, kept, disk>>

\* ------------------------------------------------------------- Set
\* Variant "close" builds the item from time.Now() and the ttl, and then asks
\* for the lock; variant "ctx" locks first and builds the item while holding
\* the lock, from pantry.expiration.
SetCall(g, k, v, ttl) ==
  /\ pc[g] = "idle"
  /\ IF variant = "close"
       THEN /\ pc' = [pc EXCEPT ![g] = "set_lock"]
            /\ loc' = [loc EXCEPT ![g] = [NoLoc EXCEPT !.key = k,
                                            !.item = Item(v, ExpiresAt(now, ttl))]]
            /\ UNCHANGED mutex
       ELSE /\ ttl = expiration
            /\ CanLock(mutex)
            /\ mutex' = Locked(mutex, g)
            /\ pc' = [pc EXCEPT ![g] = "set_value"]
            /\ loc' = [loc EXCEPT ![g] = [NoLoc EXCEPT !.key = k, !.item = Item(v, 0)]]
  /\ ret' = [ret EXCEPT ![g] = NoRet]
  /\ UNCHANGED <<now, store, swpc, ctxDone, last, sawExpired, config, kept, disk>>

SetLock(g) ==
  /\ pc[g] = "set_lock"
  /\ CanLock(mutex)
  /\ mutex' = Locked(mutex, g)
  /\ pc' = [pc EXCEPT ![g] = "set_value"]
  /\ UNCHANGED <<now, store, loc, ret, swpc, ctxDone, hist, config, kept, disk>>

\* pantry.store[key] = item copies the item into the map slot field by field:
\* first the value ...
SetValue(g) ==
  /\ pc[g] = "set_value"
  /\ HoldsLock(mutex, g)
  /\ LET it == IF variant = "close" THEN loc[g].item
                 ELSE Item(loc[g].item.Value, ExpiresAt(now, expiration))
         old == Lookup(store, loc[g].key).item
     IN  /\ store' = Put(store, loc[g].key, Item(it.Value, old.Expires))
         /\ loc' = [loc EXCEPT ![g].item = it]
  /\ pc' = [pc EXCEPT ![g] = "set_expires"]
  /\ UNCHANGED <<now, mutex, ret, swpc, ctxDone, hist, config, kept, disk>>

\* ... then the expiration; the lock is released and the call returns.
SetExpires(g) ==
  /\ pc[g] = "set_expires"
  /\ LET k == loc[g].key
     IN  /\ store' = Put(store, k, loc[g].item)
         /\ ret' = [ret EXCEPT ![g] = [op |-> "Set", key |-> k, item |-> loc[g].item]]
         /\ last' = [last EXCEPT ![k] = [op |-> "Set", item |-> loc[g].item, saved |-> FALSE]]
         /\ sawExpired' = [sawExpired EXCEPT ![k] = "no"]
  /\ mutex' = Unlocked(mutex)
  /\ pc' = [pc EXCEPT ![g] = "idle"]
  /\ loc' = [loc EXCEPT ![g] = NoLoc]
  /\ UNCHANGED <<now, swpc, ctxDone, config, kept, disk>>

\* ------------------------------------------------------------- Remove
RemoveCall(g, k) ==
  /\ pc[g] = "idle"
  /\ CanLock(mutex)
  /\ mutex' = Locked(mutex, g)
  /\ pc' = [pc EXCEPT ![g] = "remove_delete"]
  /\ loc' = [loc EXCEPT ![g] = [NoLoc EXCEPT !.key = k]]
  /\ ret' = [ret EXCEPT ![g] = NoRet]
  /\ UNCHANGED <<now, store, swpc, ctxDone, last, sawExpired, config, kept, disk>>

RemoveDelete(g) ==
  /\ pc[g] = "remove_delete"
  /\ HoldsLock(mutex, g)
  /\ LET k == loc[g].key
     IN  /\ store' = Delete(store, k)
         /\ ret' = [ret EXCEPT ![g] = [op |-> "Remove", key |-> k]]
         /\ last' = [last EXCEPT ![k] =
                        [op |-> "Remove",
                         after |-> IF last[k].op = "Set" /\ last[k].saved
                                     THEN "saved_set" ELSE "other"]]
  /\ mutex' = Unlocked(mutex)
  /\ pc' = [pc EXCEPT ![g] = "idle"]
  /\ loc' = [loc EXCEPT ![g] = NoLoc]
  /\ UNCHANGED <<now, swpc, ctxDone, sawExpired, config, kept, disk>>

\* ------------------------------------------------------------- IsEmpty
IsEmptyCall(g) ==
  /\ pc[g] = "idle"
  /\ CanRLock(mutex)
  /\ mutex' = RLocked(mutex, g)
  /\ pc' = [pc EXCEPT ![g] = "isempty_read"]
  /\ ret' = [ret EXCEPT ![g] = NoRet]
  /\ UNCHANGED <<now, store, loc, swpc, ctxDone, hist, config, kept, disk>>

\* IsEmpty as a bug would have it: only the live entries count.
IsEmptyReadLive(g) ==
  /\ pc[g] = "isempty_read"
  /\ ret' = [ret EXCEPT ![g] =
               [op |-> "IsEmpty",
                empty |-> ({k \in DOMAIN store : ~IsExpired(store[k], now)} = {})]]
  /\ mutex' = RUnlocked(mutex, g)
  /\ pc' = [pc EXCEPT ![g] = "idle"]
  /\ UNCHANGED <<now, store, loc, swpc, ctxDone, hist, config, kept, disk>>

IsEmptyRead(g) ==
  /\ pc[g] = "isempty_read"
  /\ ret' = [ret EXCEPT ![g] = [op |-> "IsEmpty", empty |-> (Cardinality(DOMAIN store) = 0)]]
  /\ mutex' = RUnlocked(mutex, g)
  /\ pc' = [pc EXCEPT ![g] = "idle"]
  /\ UNCHANGED <<now, store, loc, swpc, ctxDone, hist, config, kept, disk>>

\* ------------------------------------------------------------- Count
CountCall(g) ==
  /\ pc[g] = "idle"
  /\ CanRLock(mutex)
  /\ mutex' = RLocked(mutex, g)
  /\ pc' = [pc EXCEPT ![g] = "count_read"]
  /\ ret' = [ret EXCEPT ![g] = NoRet]
  /\ UNCHANGED <<now, store, loc, swpc, ctxDone, hist, config, kept, disk>>

CountRead(g) ==
  /\ pc[g] = "count_read"
  /\ ret' = [ret EXCEPT ![g] = [op |-> "Count", n |-> Cardinality(DOMAIN store)]]
  /\ mutex' = RUnlocked(mutex, g)
  /\ pc' = [pc EXCEPT ![g] = "idle"]
  /\ UNCHANGED <<now, store, loc, swpc, ctxDone, hist, config, kept, disk>>

\* ------------------------------------------------------------- Contains
\* Contains holds no lock of its own: it calls Get, which takes the read lock.
ContainsCall(g, k) ==
  /\ pc[g] = "idle"
  /\ CanRLock(mutex)
  /\ mutex' = RLocked(mutex, g)
  /\ pc' = [pc EXCEPT ![g] = "contains_get"]
  /\ loc' = [loc EXCEPT ![g] = [NoLoc EXCEPT !.key = k]]
  /\ ret' = [ret EXCEPT ![g] = NoRet]
  /\ UNCHANGED <<now, store, swpc, ctxDone, hist, config, kept, disk>>

ContainsGet(g) ==
  /\ pc[g] = "contains_get"
  /\ ret' = [ret EXCEPT ![g] = [op |-> "Contains", key |-> loc[g].key,
                                found |-> GetResult(store, loc[g].key, now).found]]
  /\ mutex' = RUnlocked(mutex, g)
  /\ pc' = [pc EXCEPT ![g] = "idle"]
  /\ loc' = [loc EXCEPT ![g] = NoLoc]
  /\ UNCHANGED <<now, store, swpc, ctxDone, hist, config, kept, disk>>

\* ------------------------------------------------------------- Clear
ClearCall(g) ==
  /\ pc[g] = "idle"
  /\ CanLock(mutex)
  /\ mutex' = Locked(mutex, g)
  /\ pc' = [pc EXCEPT ![g] = "clear_store"]
  /\ ret' = [ret EXCEPT ![g] = NoRet]
  /\ UNCHANGED <<now, store, loc, swpc, ctxDone, hist, config, kept, disk>>

\* Clear as a bug would have it: only the expired items go.
ClearStoreExpired(g) ==
  /\ pc[g] = "clear_store"
  /\ HoldsLock(mutex, g)
  /\ store' = Swept(store, now)
  /\ last' = [k \in Keys |-> [op |-> "Clear"]]
  /\ ret' = [ret EXCEPT ![g] = [op |-> "Clear"]]
  /\ mutex' = Unlocked(mutex)
  /\ pc' = [pc EXCEPT ![g] = "idle"]
  /\ UNCHANGED <<now, loc, swpc, ctxDone, sawExpired, config, kept, disk>>

ClearStore(g) ==
  /\ pc[g] = "clear_store"
  /\ HoldsLock(mutex, g)
  /\ store' = EmptyStore
  /\ last' = [k \in Keys |-> [op |-> "Clear"]]
  /\ ret' = [ret EXCEPT ![g] = [op |-> "Clear"]]
  /\ mutex' = Unlocked(mutex)
  /\ pc' = [pc EXCEPT ![g] = "idle"]
  /\ UNCHANGED <<now, loc, swpc, ctxDone, sawExpired, config, kept, disk>>

\* ------------------------------------------------------------- the sweeper
\* case <-ticker.C: the tick is taken when the sweeper gets to Lock().
SweepTick ==
  /\ swpc = "select"
  /\ CanLock(mutex)
  /\ mutex' = Locked(mutex, "sw")
  /\ swpc' = "sweep"
  /\ UNCHANGED <<now, store, pc, loc, ret, ctxDone, hist, config, kept, disk>>

\* SweepScan as a bug would have it: with persistence on, an expired item whose
\* file cannot be removed stays in the map.
SweepScanNeedsFile ==
  /\ swpc = "sweep"
  /\ HoldsLock(mutex, "sw")
  /\ LET gone == {k \in DOMAIN store :
                    IsExpired(store[k], now) /\ (path # "" => k \in DOMAIN files)}
     IN  /\ store' = [x \in (DOMAIN store) \ gone |-> store[x]]
         /\ files' = [x \in (DOMAIN files) \ gone |-> files[x]]
         /\ wrote' = [x \in (DOMAIN wrote) \ gone |-> wrote[x]]
  /\ mutex' = Unlocked(mutex)
  /\ swpc' = "select"
  /\ UNCHANGED <<now, pc, loc, ret, ctxDone, hist, config, kept, dirExists, persisted>>

\* The scan: every expired item is deleted, and with persistence on its file
\* is removed too (the error of os.Remove is dropped).
SweepScan ==
  /\ swpc = "sweep"
  /\ HoldsLock(mutex, "sw")
  /\ LET gone == {k \in DOMAIN store : IsExpired(store[k], now)}
     IN  /\ store' = Swept(store, now)
         /\ IF path # ""
              THEN /\ files' = [x \in (DOMAIN files) \ gone |-> files[x]]
                   /\ wrote' = [x \in (DOMAIN wrote) \ gone |-> wrote[x]]
              ELSE UNCHANGED <<files, wrote>>
  /\ mutex' = Unlocked(mutex)
  /\ swpc' = "select"
  /\ UNCHANGED <<now, pc, loc, ret, ctxDone, hist, config, kept, dirExists, persisted>>

\* case <-ctx.Done(): the map is replaced by an empty one and the sweeper returns.
SweepDone ==
  /\ swpc = "select"
  /\ ctxDone
  /\ CanLock(mutex)
  /\ mutex' = Locked(mutex, "sw")
  /\ swpc' = "clear"
  /\ UNCHANGED <<now, store, pc, loc, ret, ctxDone, hist, config, kept, disk>>

\* SweepClear as a bug would have it: the sweeper returns without clearing.
SweepReturn ==
  /\ swpc = "clear"
  /\ HoldsLock(mutex, "sw")
  /\ mutex' = Unlocked(mutex)
  /\ swpc' = "stopped"
  /\ UNCHANGED <<now, store, pc, loc, ret, ctxDone, hist, config, kept, disk>>

SweepClear ==
  /\ swpc = "clear"
  /\ HoldsLock(mutex, "sw")
  /\ store' = EmptyStore
  /\ last' = [k \in Keys |-> [op |-> "Clear"]]
  /\ mutex' = Unlocked(mutex)
  /\ swpc' = "stopped"
  /\ UNCHANGED <<now, pc, loc, ret, ctxDone, sawExpired, config, kept, disk>>

\* ------------------------------------------------------------- the sweeper that calls Remove
\* case <-ticker.C of the store that has GetAll: the range over pantry.store
\* begins, and no lock is taken for it.
\* RangeTick as a bug would have it: the sweeper takes the write lock for its
\* range, and keeps it while it calls Remove.
RangeTickLocked ==
  /\ swpc = "select"
  /\ variant = "getall"
  /\ CanLock(mutex)
  /\ mutex' = Locked(mutex, "sw")
  /\ swpc' = "range"
  /\ loc' = [loc EXCEPT !["sw"] = [NoLoc EXCEPT !.began = DOMAIN store]]
  /\ UNCHANGED <<now, store, pc, ret, ctxDone, hist, config, kept, disk>>

RangeTick ==
  /\ swpc = "select"
  /\ variant = "getall"
  /\ swpc' = "range"
  /\ loc' = [loc EXCEPT !["sw"] = [NoLoc EXCEPT !.began = DOMAIN store]]
  /\ UNCHANGED <<now, store, mutex, pc, ret, ctxDone, hist, config, kept, disk>>

\* A client is in the middle of a write to the map.
MidWrite(g) == HoldsLock(mutex, g) /\ pc[g] \in {"set_expires", "remove_delete"}

\* One round of the range: the item is read as the map holds it at this
\* instant, a half-written one included.  An expired item makes the sweeper
\* call Remove(key).
RangeVisit(k) ==
  /\ swpc = "range"
  /\ k \in (DOMAIN store) \ loc["sw"].visited
  /\ loc' = [loc EXCEPT !["sw"].visited = @ \cup {k}, !["sw"].key = k]
  /\ swpc' = IF IsExpired(store[k], now) THEN "remove_lock" ELSE "range"
  /\ UNCHANGED <<now, store, mutex, pc, ret, ctxDone, hist, config, kept, disk>>

\* The other outcome of a round that meets a write: the runtime finds the map
\* being written and ends the process (concurrent map iteration and map write).
RangeThrow ==
  /\ swpc = "range"
  /\ \E g \in Clients : MidWrite(g)
  /\ swpc' = "crashed"
  /\ UNCHANGED <<now, store, mutex, pc, loc, ret, ctxDone, hist, config, kept, disk>>

\* Remove(key) of the sweeper: Lock(), ...
RangeRemoveLock ==
  /\ swpc = "remove_lock"
  /\ CanLock(mutex)
  /\ mutex' = Locked(mutex, "sw")
  /\ swpc' = "remove_delete"
  /\ UNCHANGED <<now, store, pc, loc, ret, ctxDone, hist, config, kept, disk>>

\* ... delete(pantry.store, key), Unlock(), and the range goes on.
RangeRemoveDelete ==
  /\ swpc = "remove_delete"
  /\ HoldsLock(mutex, "sw")
  /\ store' = Delete(store, loc["sw"].key)
  /\ mutex' = Unlocked(mutex)
  /\ swpc' = "range"
  /\ UNCHANGED <<now, pc, loc, ret, ctxDone, hist, config, kept, disk>>

\* The range ends when every key that was in the map when it began, and still
\* is, has been handed out; a key added meanwhile may have been skipped.
RangeEnd ==
  /\ swpc = "range"
  /\ (DOMAIN store) \cap loc["sw"].began \subseteq loc["sw"].visited
  /\ swpc' = "select"
  /\ loc' = [loc EXCEPT !["sw"] = NoLoc]
  /\ UNCHANGED <<now, store, mutex, pc, ret, ctxDone, hist, config, kept, disk>>

\* cancel() of the context handed to New.
Cancel(g) ==
  /\ pc[g] = "idle"
  /\ ~ctxDone
  /\ ctxDone' = TRUE
  /\ UNCHANGED <<now, store, mutex, pc, loc, ret, swpc, hist, config, kept, disk>>

\* ------------------------------------------------------------- Close
CloseCall(g) ==
  /\ pc[g] = "idle"
  /\ pc' = [pc EXCEPT ![g] = "close_send"]
  /\ ret' = [ret EXCEPT ![g] = NoRet]
  /\ UNCHANGED <<now, store, mutex, loc, swpc, ctxDone, hist, config, kept, disk>>

\* pantry.close is unbuffered: the send completes when the sweeper's select
\* takes case <-pantry.close, and the sweeper returns.
CloseSend(g) ==
  /\ pc[g] = "close_send"
  /\ swpc = "select"
  /\ swpc' = "stopped"
  /\ pc' = [pc EXCEPT ![g] = "close_lock"]
  /\ UNCHANGED <<now, store, mutex, loc, ret, ctxDone, hist, config, kept, disk>>

CloseLock(g) ==
  /\ pc[g] = "close_lock"
  /\ CanLock(mutex)
  /\ mutex' = Locked(mutex, g)
  /\ pc' = [pc EXCEPT ![g] = "close_clear"]
  /\ UNCHANGED <<now, store, loc, ret, swpc, ctxDone, hist, config, kept, disk>>

CloseClear(g) ==
  /\ pc[g] = "close_clear"
  /\ HoldsLock(mutex, g)
  /\ store' = EmptyStore
  /\ last' = [k \in Keys |-> [op |-> "Clear"]]
  /\ mutex' = Unlocked(mutex)
  /\ ret' = [ret EXCEPT ![g] = [op |-> "Close"]]
  /\ pc' = [pc EXCEPT ![g] = "idle"]
  /\ UNCHANGED <<now, loc, swpc, ctxDone, sawExpired, config, kept, disk>>

\* ------------------------------------------------------------- Result.Persist
\* What a Persist that returned nil leaves in the history of an audited key.
Audited(r, done) ==
  IF r.key \in audit
    THEN /\ persisted' = [persisted EXCEPT ![r.key] = done]
         /\ last' = [last EXCEPT ![r.key] =
                       IF r.op = "Set" /\ @.op = "Set" /\ @.item = r.item
                         THEN [@ EXCEPT !.saved = TRUE] ELSE @]
    ELSE UNCHANGED <<persisted, last>>

\* The client goroutine g holds on to the *Result its last Set or Remove returned.
Keep(g) ==
  /\ pc[g] = "idle"
  /\ ret[g].op \in {"Set", "Remove"}
  /\ kept[g] # ret[g]
  /\ kept' = [kept EXCEPT ![g] = ret[g]]
  /\ UNCHANGED <<now, store, mutex, pc, loc, ret, swpc, ctxDone, hist, config, disk>>

\* Persist as a bug would have it: a set outcome writes the entry the map holds
\* for the key at the time of the call, not the item the Result carries.
PersistCurrent(g, r) ==
  /\ pc[g] = "idle"
  /\ r.op \in {"Set", "Remove"}
  /\ path # ""
  /\ dirExists' = TRUE
  /\ files' = IF r.op = "Set" /\ r.key \in DOMAIN store
                THEN Put(files, r.key, Encode(store[r.key])) ELSE Delete(files, r.key)
  /\ wrote' = IF r.op = "Set" /\ r.key \in DOMAIN store
                THEN Put(wrote, r.key, store[r.key]) ELSE Delete(wrote, r.key)
  /\ ret' = [ret EXCEPT ![g] = [op |-> "Persist", key |-> r.key, err |-> FALSE]]
  /\ Audited(r, IF r.op = "Remove" THEN "remove"
                ELSE IF last[r.key].op = "Set" /\ last[r.key].item = r.item
                  THEN "set" ELSE "stale")
  /\ UNCHANGED <<now, store, mutex, pc, loc, swpc, ctxDone, sawExpired, config, kept>>

\* Persist as a bug would have it: the missing path is not checked.
PersistAnywhere(g, r) ==
  /\ pc[g] = "idle"
  /\ r.op \in {"Set", "Remove"}
  /\ dirExists' = TRUE
  /\ files' = IF r.op = "Set" THEN Put(files, r.key, Encode(r.item)) ELSE Delete(files, r.key)
  /\ wrote' = IF r.op = "Set" THEN Put(wrote, r.key, r.item) ELSE Delete(wrote, r.key)
  /\ ret' = [ret EXCEPT ![g] = [op |-> "Persist", key |-> r.key, err |-> FALSE]]
  /\ UNCHANGED <<now, store, mutex, pc, loc, swpc, ctxDone, hist, persisted, config, kept>>

\* The client goroutine g persists the Result r of one of its Set or Remove calls.
Persist(g, r) ==
  /\ pc[g] = "idle"
  /\ r.op \in {"Set", "Remove"}
  /\ IF path = ""
       THEN /\ ret' = [ret EXCEPT ![g] = [op |-> "Persist", key |-> r.key, err |-> TRUE]]
            /\ UNCHANGED <<disk, last>>
       ELSE /\ dirExists' = TRUE
            /\ IF r.op = "Set"
                 THEN /\ files' = Put(files, r.key, Encode(r.item))
                      /\ wrote' = Put(wrote, r.key, r.item)
                      /\ ret' = [ret EXCEPT ![g] =
                                   [op |-> "Persist", key |-> r.key, err |-> FALSE]]
                      /\ Audited(r, IF last[r.key].op = "Set" /\ last[r.key].item = r.item
                                       THEN "set" ELSE "stale")
                 ELSE /\ files' = Delete(files, r.key)
                      /\ wrote' = Delete(wrote, r.key)
                      /\ ret' = [ret EXCEPT ![g] =
                                   [op |-> "Persist", key |-> r.key,
                                    err |-> (r.key \notin DOMAIN files)]]
                      /\ IF r.key \in DOMAIN files
                           THEN Audited(r, "remove")
                           ELSE UNCHANGED <<persisted, last>>
  /\ UNCHANGED <<now, store, mutex, pc, loc, swpc, ctxDone, sawExpired, config, kept>>

\* ------------------------------------------------------------- the second store
\* The files of the second store's directory.
PeerFiles == IF peer.path = path THEN files ELSE peer.files

\* What the rest of the store's variables keep while the second store acts.
PeerFrame ==
  UNCHANGED <<now, store, mutex, pc, loc, ret, kept, swpc, ctxDone, hist, persisted,
              variant, expiration, owned, path, watch, audit>>

\* Set of the second store, start to end: it contends for no lock but its own.
PeerSet(k, v, ttl) ==
  /\ LET it == Item(v, ExpiresAt(now, ttl))
     IN  peer' = [peer EXCEPT !.store = Put(@, k, it),
                              !.kept = [op |-> "Set", key |-> k, item |-> it]]
  /\ UNCHANGED <<dirExists, files, wrote>>
  /\ PeerFrame

\* Persist as a bug would have it: the directory is one name for every store.
PeerPersistOneDirectory ==
  /\ peer.kept.op = "Set"
  /\ dirExists' = TRUE
  /\ files' = Put(files, peer.kept.key, Encode(peer.kept.item))
  /\ wrote' = Put(wrote, peer.kept.key, peer.kept.item)
  /\ peer' = [peer EXCEPT !.kept = NoRet]
  /\ PeerFrame

\* Persist of the *Result the second store's Set returned: the file is
\* persistencePath/key, whichever store the path belongs to.
PeerPersist ==
  /\ peer.kept.op = "Set"
  /\ IF peer.path = path
       THEN /\ dirExists' = TRUE
            /\ files' = Put(files, peer.kept.key, Encode(peer.kept.item))
            /\ wrote' = Put(wrote, peer.kept.key, peer.kept.item)
            /\ peer' = [peer EXCEPT !.kept = NoRet]
       ELSE /\ peer' = [peer EXCEPT !.dirExists = TRUE,
                                    !.files = Put(@, peer.kept.key, Encode(peer.kept.item)),
                                    !.kept = NoRet]
            /\ UNCHANGED <<dirExists, files, wrote>>
  /\ PeerFrame

\* A tick of the second store's sweeper, start to end.
PeerSweep ==
  /\ ~peer.closed
  /\ LET gone == {k \in DOMAIN peer.store : IsExpired(peer.store[k], now)}
     IN  /\ gone # {}
         /\ IF peer.path = path
              THEN /\ peer' = [peer EXCEPT !.store = Swept(@, now)]
                   /\ files' = [x \in (DOMAIN files) \ gone |-> files[x]]
                   /\ wrote' = [x \in (DOMAIN wrote) \ gone |-> wrote[x]]
              ELSE /\ peer' = [peer EXCEPT !.store = Swept(@, now),
                                           !.files = [x \in (DOMAIN @) \ gone |-> @[x]]]
                   /\ UNCHANGED <<files, wrote>>
  /\ UNCHANGED dirExists
  /\ PeerFrame

\* Close of the second store: its sweeper returns and its map is emptied.
PeerClose ==
  /\ ~peer.closed
  /\ peer' = [peer EXCEPT !.store = EmptyStore, !.closed = TRUE]
  /\ UNCHANGED <<dirExists, files, wrote>>
  /\ PeerFrame

\* ------------------------------------------------------------- Load
\* Load as a bug would have it: a missing directory is an error.
LoadCallStrict(g) ==
  /\ pc[g] = "idle"
  /\ IF path = "" \/ ~dirExists \/ DOMAIN files = {}
       THEN /\ ret' = [ret EXCEPT ![g] = [op |-> "Load", err |-> (path # "" /\ ~dirExists)]]
            /\ UNCHANGED <<pc, loc>>
       ELSE /\ ret' = [ret EXCEPT ![g] = NoRet]
            /\ pc' = [pc EXCEPT ![g] = "load_read"]
            /\ loc' = [loc EXCEPT ![g] = [NoLoc EXCEPT !.todo = SortedNames(DOMAIN files)]]
  /\ UNCHANGED <<now, store, mutex, swpc, ctxDone, hist, config, kept, disk>>

LoadCall(g) ==
  /\ pc[g] = "idle"
  /\ IF path = ""
       THEN /\ ret' = [ret EXCEPT ![g] = [op |-> "Load", err |-> FALSE]]
            /\ UNCHANGED <<pc, loc, dirExists>>
       ELSE /\ dirExists' = TRUE
            /\ IF DOMAIN files = {}
                 THEN /\ ret' = [ret EXCEPT ![g] = [op |-> "Load", err |-> FALSE]]
                      /\ UNCHANGED <<pc, loc>>
                 ELSE /\ ret' = [ret EXCEPT ![g] = NoRet]
                      /\ pc' = [pc EXCEPT ![g] = "load_read"]
                      /\ loc' = [loc EXCEPT ![g] =
                                   [NoLoc EXCEPT !.todo = SortedNames(DOMAIN files)]]
  /\ UNCHANGED <<now, store, mutex, swpc, ctxDone, hist, config, kept, files, wrote, persisted>>

\* ioutil.ReadFile and decoder.Decode of the next file; an error ends Load.
LoadRead(g) ==
  /\ pc[g] = "load_read"
  /\ LET name == Head(loc[g].todo)
     IN  IF name \in DOMAIN files /\ Decodes(files[name])
           THEN /\ loc' = [loc EXCEPT ![g].key = name, ![g].item = Decode(files[name])]
                /\ pc' = [pc EXCEPT ![g] = "load_lock"]
                /\ UNCHANGED ret
           ELSE /\ ret' = [ret EXCEPT ![g] = [op |-> "Load", err |-> TRUE]]
                /\ pc' = [pc EXCEPT ![g] = "idle"]
                /\ loc' = [loc EXCEPT ![g] = NoLoc]
  /\ UNCHANGED <<now, store, mutex, swpc, ctxDone, hist, config, kept, disk>>

LoadLock(g) ==
  /\ pc[g] = "load_lock"
  /\ CanLock(mutex)
  /\ mutex' = Locked(mutex, g)
  /\ pc' = [pc EXCEPT ![g] = "load_store"]
  /\ UNCHANGED <<now, store, loc, ret, swpc, ctxDone, hist, config, kept, disk>>

\* Load as a bug would have it: a loaded item starts a new life.
LoadStoreRenewed(g) ==
  /\ pc[g] = "load_store"
  /\ HoldsLock(mutex, g)
  /\ LET k == loc[g].key
         rest == Tail(loc[g].todo)
     IN  /\ store' = Put(store, k, Item(loc[g].item.Value, ExpiresAt(now, MaxTTL)))
         /\ last' = [last EXCEPT ![k] = [op |-> "Load", item |-> loc[g].item,
                                           over |-> IF last[k].op = "Load"
                                                      THEN last[k].over
                                                      ELSE last[k].op]]
         /\ IF rest = << >>
              THEN /\ ret' = [ret EXCEPT ![g] = [op |-> "Load", err |-> FALSE]]
                   /\ pc' = [pc EXCEPT ![g] = "idle"]
                   /\ loc' = [loc EXCEPT ![g] = NoLoc]
              ELSE /\ pc' = [pc EXCEPT ![g] = "load_read"]
                   /\ loc' = [loc EXCEPT ![g] = [NoLoc EXCEPT !.todo = rest,
                                                                !.visited = loc[g].visited \cup {k}]]
                   /\ UNCHANGED ret
  /\ mutex' = Unlocked(mutex)
  /\ UNCHANGED <<now, swpc, ctxDone, sawExpired, config, kept, disk>>

\* Load as a bug would have it: an entry the map already holds is not replaced.
LoadStoreKeepsEntry(g) ==
  /\ pc[g] = "load_store"
  /\ HoldsLock(mutex, g)
  /\ LET k == loc[g].key
         rest == Tail(loc[g].todo)
     IN  /\ store' = PutIfAbsent(store, k, loc[g].item)
         /\ last' = [last EXCEPT ![k] = [op |-> "Load", item |-> loc[g].item,
                                           over |-> IF last[k].op = "Load"
                                                      THEN last[k].over
                                                      ELSE last[k].op]]
         /\ sawExpired' =
              [sawExpired EXCEPT ![k] =
                 CASE @ = "seen" -> "reloaded"
                   [] @ \in {"seen_earlier", "missed_again"} -> "reloaded_earlier"
                   [] OTHER -> @]
         /\ IF rest = << >>
              THEN /\ ret' = [ret EXCEPT ![g] = [op |-> "Load", err |-> FALSE]]
                   /\ pc' = [pc EXCEPT ![g] = "idle"]
                   /\ loc' = [loc EXCEPT ![g] = NoLoc]
              ELSE /\ pc' = [pc EXCEPT ![g] = "load_read"]
                   /\ loc' = [loc EXCEPT ![g] = [NoLoc EXCEPT !.todo = rest,
                                                                !.visited = loc[g].visited \cup {k}]]
                   /\ UNCHANGED ret
  /\ mutex' = Unlocked(mutex)
  /\ UNCHANGED <<now, swpc, ctxDone, config, kept, disk>>

LoadStore(g) ==
  /\ pc[g] = "load_store"
  /\ HoldsLock(mutex, g)
  /\ LET k == loc[g].key
         rest == Tail(loc[g].todo)
     IN  /\ store' = Put(store, k, loc[g].item)
         /\ last' = [last EXCEPT ![k] = [op |-> "Load", item |-> loc[g].item,
                                           over |-> IF last[k].op = "Load"
                                                      THEN last[k].over
                                                      ELSE last[k].op]]
         /\ sawExpired' =
              [sawExpired EXCEPT ![k] =
                 CASE @ = "seen" -> "reloaded"
                   [] @ \in {"seen_earlier", "missed_again"} -> "reloaded_earlier"
                   [] OTHER -> @]
         /\ IF rest = << >>
              THEN /\ ret' = [ret EXCEPT ![g] = [op |-> "Load", err |-> FALSE]]
                   /\ pc' = [pc EXCEPT ![g] = "idle"]
                   /\ loc' = [loc EXCEPT ![g] = NoLoc]
              ELSE /\ pc' = [pc EXCEPT ![g] = "load_read"]
                   /\ loc' = [loc EXCEPT ![g] = [NoLoc EXCEPT !.todo = rest,
                                                                !.visited = loc[g].visited \cup {k}]]
                   /\ UNCHANGED ret
  /\ mutex' = Unlocked(mutex)
  /\ UNCHANGED <<now, swpc, ctxDone, config, kept, disk>>

\* ------------------------------------------------------------- GetAll
GetAllCall(g) ==
  /\ pc[g] = "idle"
  /\ variant \in {"close", "getall"}
  /\ CanRLock(mutex)
  /\ mutex' = RLocked(mutex, g)
  /\ pc' = [pc EXCEPT ![g] = "getall_range"]
  /\ loc' = [loc EXCEPT ![g] = NoLoc]
  /\ ret' = [ret EXCEPT ![g] = NoRet]
  /\ UNCHANGED <<now, store, swpc, ctxDone, hist, config, kept, disk>>

\* One round of the range loop: the map hands out its keys in any order, and
\* time.Now() is read for each.
GetAllVisit(g, k) ==
  /\ pc[g] = "getall_range"
  /\ k \in (DOMAIN store) \ loc[g].visited
  /\ loc' = [loc EXCEPT ![g].visited = @ \cup {k},
                         ![g].out = IF IsExpired(store[k], now)
                                      THEN @ ELSE Put(@, k, store[k].Value)]
  /\ UNCHANGED <<now, store, mutex, pc, ret, swpc, ctxDone, hist, config, kept, disk>>

GetAllEnd(g) ==
  /\ pc[g] = "getall_range"
  /\ loc[g].visited = DOMAIN store
  /\ ret' = [ret EXCEPT ![g] = [op |-> "GetAll", items |-> loc[g].out]]
  /\ mutex' = RUnlocked(mutex, g)
  /\ pc' = [pc EXCEPT ![g] = "idle"]
  /\ loc' = [loc EXCEPT ![g] = NoLoc]
  /\ UNCHANGED <<now, store, swpc, ctxDone, hist, config, kept, disk>>

\* ------------------------------------------------------------- the directory
\* Something other than Persist leaves a file in the directory whose bytes are
\* not an encoded Item.
Corrupt(k) ==
  /\ path # ""
  /\ dirExists
  /\ IF k \in DOMAIN files THEN files[k] # Junk ELSE TRUE
  /\ files' = Put(files, k, Junk)
  /\ wrote' = Delete(wrote, k)
  /\ UNCHANGED <<now, store, mutex, pc, loc, ret, swpc, ctxDone, hist, config, kept,
                 dirExists, persisted>>

\* ------------------------------------------------------------- restart
\* The process ends and a new one builds a fresh store on the same directory:
\* memory and goroutines are new, the disk is what it was.
Restart ==
  /\ \A g \in Clients : pc[g] = "idle"
  /\ store' = EmptyStore
  /\ mutex' = NewMutex
  /\ ret' = [g \in Clients |-> NoRet]
  /\ swpc' = "select"
  /\ last' = [k \in Keys |-> [op |-> "Restart"]]
  /\ sawExpired' = [k \in Keys |-> "no"]
  /\ kept' = [g \in Clients |-> NoRet]
  /\ UNCHANGED <<now, pc, loc, ctxDone, config, disk>>

\* ------------------------------------------------------------- Keys, Values, All
Element(kind, k, it) ==
  CASE kind = "Keys" -> <<k>>
    [] kind = "Values" -> <<it.Value>>
    [] kind = "All" -> <<k, it.Value>>

EnumCall(g, kind) ==
  /\ pc[g] = "idle"
  /\ CanRLock(mutex)
  /\ mutex' = RLocked(mutex, g)
  /\ pc' = [pc EXCEPT ![g] = "enum_loop"]
  /\ loc' = [loc EXCEPT ![g] = [NoLoc EXCEPT !.kind = kind]]
  /\ ret' = [ret EXCEPT ![g] = NoRet]
  /\ UNCHANGED <<now, store, swpc, ctxDone, hist, config, kept, disk>>

\* EnumVisit as a bug would have it: an expired entry the range meets is deleted.
EnumVisitEvicts(g, k, brk) ==
  /\ pc[g] = "enum_loop"
  /\ k \in (DOMAIN store) \ loc[g].visited
  /\ IF IsExpired(store[k], now)
       THEN /\ ~brk
            /\ loc' = [loc EXCEPT ![g].visited = @ \cup {k}]
            /\ store' = Delete(store, k)
            /\ UNCHANGED pc
       ELSE /\ loc' = [loc EXCEPT ![g].visited = @ \cup {k},
                                  ![g].yielded = @ \cup {k},
                                  ![g].out = @ \o <<Element(loc[g].kind, k, store[k])>>]
            /\ pc' = [pc EXCEPT ![g] = IF brk THEN "enum_break" ELSE "enum_loop"]
            /\ UNCHANGED store
  /\ UNCHANGED <<now, mutex, ret, swpc, ctxDone, hist, config, kept, disk>>

\* One iteration of for key, item := range pantry.store, on any entry the
\* range has not produced yet.  brk: the consumer's loop body breaks, yield
\* returns false and the iterator returns.
EnumVisit(g, k, brk) ==
  /\ pc[g] = "enum_loop"
  /\ k \in (DOMAIN store) \ loc[g].visited
  /\ IF IsExpired(store[k], now)
       THEN /\ ~brk
            /\ loc' = [loc EXCEPT ![g].visited = @ \cup {k}]
            /\ UNCHANGED pc
       ELSE /\ loc' = [loc EXCEPT ![g].visited = @ \cup {k},
                                  ![g].yielded = @ \cup {k},
                                  ![g].out = @ \o <<Element(loc[g].kind, k, store[k])>>]
            /\ pc' = [pc EXCEPT ![g] = IF brk THEN "enum_break" ELSE "enum_loop"]
  /\ UNCHANGED <<now, store, mutex, ret, swpc, ctxDone, hist, config, kept, disk>>

\* EnumEnd as a bug would have it: a loop that was broken off keeps the read lock.
EnumEndLeaks(g) ==
  /\ \/ pc[g] = "enum_break"
     \/ pc[g] = "enum_loop" /\ (DOMAIN store) \subseteq loc[g].visited
  /\ ret' = [ret EXCEPT ![g] = [op |-> loc[g].kind, out |-> loc[g].out,
                                broke |-> (pc[g] = "enum_break")]]
  /\ mutex' = IF pc[g] = "enum_break" THEN mutex ELSE RUnlocked(mutex, g)
  /\ pc' = [pc EXCEPT ![g] = "idle"]
  /\ loc' = [loc EXCEPT ![g] = NoLoc]
  /\ UNCHANGED <<now, store, swpc, ctxDone, hist, config, kept, disk>>

\* The range is exhausted or was broken off: the deferred RUnlock runs.
EnumEnd(g) ==
  /\ \/ pc[g] = "enum_break"
     \/ pc[g] = "enum_loop" /\ (DOMAIN store) \subseteq loc[g].visited
  /\ ret' = [ret EXCEPT ![g] = [op |-> loc[g].kind, out |-> loc[g].out,
                                broke |-> (pc[g] = "enum_break")]]
  /\ mutex' = RUnlocked(mutex, g)
  /\ pc' = [pc EXCEPT ![g] = "idle"]
  /\ loc' = [loc EXCEPT ![g] = NoLoc]
  /\ UNCHANGED <<now, store, swpc, ctxDone, hist, config, kept, disk>>

\* ------------------------------------------------------------- a loop body that calls the store
\* The consumer's loop body, run by yield for the key k it was handed, calls
\* Get(k) (op "Get") or Remove(k) (op "Remove") on the store that is being
\* enumerated; the iterator's RLock is held all the while.
BodyCall(g, k, op) ==
  /\ pc[g] = "enum_loop"
  /\ k \in loc[g].yielded \ loc[g].began
  /\ loc' = [loc EXCEPT ![g].began = @ \cup {k}, ![g].key = k]
  /\ pc' = [pc EXCEPT ![g] = IF op = "Get" THEN "body_get_lock" ELSE "body_remove_lock"]
  /\ UNCHANGED <<now, store, mutex, ret, swpc, ctxDone, hist, config, kept, disk>>

\* Get's RLock(): granted unless a writer has asked for the lock.
BodyGetLock(g) ==
  /\ pc[g] = "body_get_lock"
  /\ CanRLock(mutex)
  /\ mutex' = RLocked(mutex, g)
  /\ pc' = [pc EXCEPT ![g] = "body_get_read"]
  /\ UNCHANGED <<now, store, loc, ret, swpc, ctxDone, hist, config, kept, disk>>

\* Get reads, its deferred RUnlock runs, and the body returns to yield.
BodyGetRead(g) ==
  /\ pc[g] = "body_get_read"
  /\ mutex' = RUnlocked(mutex, g)
  /\ pc' = [pc EXCEPT ![g] = "enum_loop"]
  /\ UNCHANGED <<now, store, loc, ret, swpc, ctxDone, hist, config, kept, disk>>

\* Remove's Lock(): the goroutine is now the writer that waits for every
\* reader to leave, and it is one of the readers itself.
BodyRemoveLock(g) ==
  /\ pc[g] = "body_remove_lock"
  /\ CanLock(mutex)
  /\ mutex' = Locked(mutex, g)
  /\ pc' = [pc EXCEPT ![g] = "body_remove_wait"]
  /\ UNCHANGED <<now, store, loc, ret, swpc, ctxDone, hist, config, kept, disk>>

\* ------------------------------------------------------------- next-state relations
\* New(): Get, Set, Remove, IsEmpty, Close and the sweeper, one client goroutine.
Next ==
  \/ Tick
  \/ SweepTick
  \/ SweepScan
  \/ \E g \in Clients : \E k \in owned[g] : GetCall(g, k)
  \/ \E g \in Clients : GetRead(g)
  \/ \E g \in Clients : \E k \in owned[g] : \E v \in Values : \E ttl \in TTLs : SetCall(g, k, v, ttl)
  \/ \E g \in Clients : SetLock(g)
  \/ \E g \in Clients : SetValue(g)
  \/ \E g \in Clients : SetExpires(g)
  \/ \E g \in Clients : \E k \in owned[g] : RemoveCall(g, k)
  \/ \E g \in Clients : RemoveDelete(g)
  \/ \E g \in Clients : owned[g] # {} /\ IsEmptyCall(g)
  \/ \E g \in Clients : IsEmptyRead(g)
  \/ \E g \in Clients : owned[g] # {} /\ CloseCall(g)
  \/ \E g \in Clients : CloseSend(g)
  \/ \E g \in Clients : CloseLock(g)
  \/ \E g \in Clients : CloseClear(g)

Spec == Init /\ [][Next]_vars

\* New().WithPersistence(path): the same with Result.Persist, Load and restarts.
NextDisk ==
  \/ Tick
  \/ SweepTick
  \/ SweepScan
  \/ \E g \in Clients : \E k \in owned[g] : GetCall(g, k)
  \/ \E g \in Clients : GetRead(g)
  \/ \E g \in Clients : \E k \in owned[g] : \E v \in DiskValues : \E ttl \in TTLs : SetCall(g, k, v, ttl)
  \/ \E g \in Clients : SetLock(g)
  \/ \E g \in Clients : SetValue(g)
  \/ \E g \in Clients : SetExpires(g)
  \/ \E g \in Clients : \E k \in owned[g] : RemoveCall(g, k)
  \/ \E g \in Clients : RemoveDelete(g)
  \/ \E g \in Clients : Persist(g, ret[g])
  \/ \E g \in Clients : owned[g] # {} /\ LoadCall(g)
  \/ \E g \in Clients : LoadRead(g)
  \/ \E g \in Clients : LoadLock(g)
  \/ \E g \in Clients : LoadStore(g)
  \/ Restart

SpecDisk == InitDisk /\ [][NextDisk]_vars

\* New(): every Set is given a zero or a negative ttl.
NextInstant ==
  \/ Tick
  \/ SweepTick
  \/ SweepScan
  \/ \E g \in Clients : \E k \in owned[g] : GetCall(g, k)
  \/ \E g \in Clients : GetRead(g)
  \/ \E g \in Clients : \E k \in owned[g] : \E s \in NonPositive : SetCall(g, k, s.value, s.ttl)
  \/ \E g \in Clients : SetLock(g)
  \/ \E g \in Clients : SetValue(g)
  \/ \E g \in Clients : SetExpires(g)
  \/ \E g \in Clients : \E k \in owned[g] : RemoveCall(g, k)
  \/ \E g \in Clients : RemoveDelete(g)

SpecInstant == Init /\ [][NextInstant]_vars

SpecPersist == InitPersist /\ [][NextDisk]_vars

\* Nothing of an audited key is waiting for its Persist: the key was not
\* written by a Set or a Remove since New, Load or the restart, or the outcome
\* of its last Set or Remove has been persisted with a nil error.
Settled(k) ==
  \/ k \notin audit
  \/ last[k].op \in {"none", "Restart", "Load", "Clear"}
  \/ last[k].op = "Set" /\ last[k].saved
  \/ last[k].op = "Remove" /\ persisted[k] = "remove"

\* The caller's discipline: a goroutine calls Set or Remove for a key only
\* when the outcome of the last Set or Remove of that key has been persisted.
Discipline ==
  \A g \in Clients :
    (pc[g] = "idle" /\ pc'[g] \in {"set_lock", "set_value", "remove_delete"})
      => Settled(loc'[g].key)

\* New().WithPersistence(path) with callers that keep the discipline.
NextDisciplined == NextDisk /\ Discipline

SpecDisciplined == InitPersist /\ [][NextDisciplined]_vars

\* The same with GetAll, on a directory that may hold foreign files.
NextLoad ==
  \/ NextDisk
  \/ \E g \in Clients : owned[g] # {} /\ GetAllCall(g)
  \/ \E g \in Clients : \E k \in Keys : GetAllVisit(g, k)
  \/ \E g \in Clients : GetAllEnd(g)
  \/ \E k \in Keys : Corrupt(k)

SpecLoad == InitLoad /\ [][NextLoad]_vars

\* The same as NextDisk with Results that are persisted later than at once.
NextStale ==
  \/ NextDisk
  \/ \E g \in Clients : Keep(g)
  \/ \E g \in Clients : Persist(g, kept[g])

SpecStale == InitStale /\ [][NextStale]_vars

\* New(ctx, expiration): Get, Set, Remove, IsEmpty, the iterators, cancel().
NextCtx ==
  \/ Tick
  \/ SweepTick
  \/ SweepScan
  \/ \E g \in Clients : \E k \in owned[g] : GetCall(g, k)
  \/ \E g \in Clients : GetRead(g)
  \/ \E g \in Clients : \E k \in owned[g] : \E v \in Values : \E ttl \in TTLs : SetCall(g, k, v, ttl)
  \/ \E g \in Clients : SetValue(g)
  \/ \E g \in Clients : SetExpires(g)
  \/ \E g \in Clients : \E k \in owned[g] : RemoveCall(g, k)
  \/ \E g \in Clients : RemoveDelete(g)
  \/ \E g \in Clients : owned[g] # {} /\ IsEmptyCall(g)
  \/ \E g \in Clients : IsEmptyRead(g)
  \/ SweepDone
  \/ SweepClear
  \/ \E g \in Clients : owned[g] # {} /\ Cancel(g)
  \/ \E g \in Clients : \E kind \in {"Keys", "Values", "All"} : owned[g] # {} /\ EnumCall(g, kind)
  \/ \E g \in Clients : \E k \in Keys : \E brk \in BOOLEAN : EnumVisit(g, k, brk)
  \/ \E g \in Clients : EnumEnd(g)

SpecCtx == InitCtx /\ [][NextCtx]_vars

\* The same with Count, Contains and Clear.
NextFull ==
  \/ NextCtx
  \/ \E g \in Clients : owned[g] # {} /\ CountCall(g)
  \/ \E g \in Clients : CountRead(g)
  \/ \E g \in Clients : \E k \in owned[g] : ContainsCall(g, k)
  \/ \E g \in Clients : ContainsGet(g)
  \/ \E g \in Clients : owned[g] # {} /\ ClearCall(g)
  \/ \E g \in Clients : ClearStore(g)

SpecFull == InitCtx /\ [][NextFull]_vars

\* New(ctx, expiration) of the store that has GetAll: Get, GetAll, Set,
\* Remove, IsEmpty, cancel(), and the sweeper that ranges over the map and
\* calls Remove.  Nothing runs once the runtime has ended the process.
NextGetAll ==
  /\ swpc # "crashed"
  /\ \/ Tick
     \/ RangeTick
     \/ \E k \in Keys : RangeVisit(k)
     \/ RangeThrow
     \/ RangeRemoveLock
     \/ RangeRemoveDelete
     \/ RangeEnd
     \/ \E g \in Clients : \E k \in owned[g] : GetCall(g, k)
     \/ \E g \in Clients : GetRead(g)
     \/ \E g \in Clients : owned[g] # {} /\ GetAllCall(g)
     \/ \E g \in Clients : \E k \in Keys : GetAllVisit(g, k)
     \/ \E g \in Clients : GetAllEnd(g)
     \/ \E g \in Clients : \E k \in owned[g] : \E v \in Values : SetCall(g, k, v, expiration)
     \/ \E g \in Clients : SetValue(g)
     \/ \E g \in Clients : SetExpires(g)
     \/ \E g \in Clients : \E k \in owned[g] : RemoveCall(g, k)
     \/ \E g \in Clients : RemoveDelete(g)
     \/ \E g \in Clients : owned[g] # {} /\ IsEmptyCall(g)
     \/ \E g \in Clients : IsEmptyRead(g)
     \/ SweepDone
     \/ SweepClear
     \/ \E g \in Clients : owned[g] # {} /\ Cancel(g)

SpecGetAll == InitGetAll /\ [][NextGetAll]_vars

\* Two stores side by side: Get, Set, Remove, Persist, the sweeper and Close
\* of this one; Set, Persist, the sweeper and Close of the second one.
NextPeers ==
  \/ Tick
  \/ SweepTick
  \/ SweepScan
  \/ \E g \in Clients : \E k \in owned[g] : GetCall(g, k)
  \/ \E g \in Clients : GetRead(g)
  \/ \E g \in Clients : \E k \in owned[g] : \E v \in DiskValues : SetCall(g, k, v, MaxTTL)
  \/ \E g \in Clients : SetLock(g)
  \/ \E g \in Clients : SetValue(g)
  \/ \E g \in Clients : SetExpires(g)
  \/ \E g \in Clients : \E k \in owned[g] : RemoveCall(g, k)
  \/ \E g \in Clients : RemoveDelete(g)
  \/ \E g \in Clients : Persist(g, ret[g])
  \/ \E g \in Clients : owned[g] # {} /\ CloseCall(g)
  \/ \E g \in Clients : CloseSend(g)
  \/ \E g \in Clients : CloseLock(g)
  \/ \E g \in Clients : CloseClear(g)
  \/ \E k \in owned["g1"] : \E v \in Values \ DiskValues : PeerSet(k, v, MaxTTL)
  \/ PeerPersist
  \/ PeerSweep
  \/ PeerClose

SpecPeers == InitPeers /\ [][NextPeers]_vars

\* Any of the stores: the one of New(ctx, expiration) with its iterators,
\* Count, Contains and Clear, the one that has GetAll, and the one of New()
\* with Close, Result.Persist and Load.
InitAny == InitCtx \/ InitGetAll \/ InitLoad

NextAny ==
  \/ variant = "ctx" /\ NextFull
  \/ variant = "getall" /\ NextGetAll
  \/ variant = "close" /\ NextDisk
  \/ \E g \in Clients : variant = "close" /\ owned[g] # {} /\ CloseCall(g)
  \/ \E g \in Clients : CloseSend(g)
  \/ \E g \in Clients : CloseLock(g)
  \/ \E g \in Clients : CloseClear(g)

SpecAny == InitAny /\ [][NextAny]_vars

\* New(): two client goroutines, each on its own key.
NextConc ==
  \/ Tick
  \/ SweepTick
  \/ SweepScan
  \/ \E g \in Clients : \E k \in owned[g] : GetCall(g, k)
  \/ \E g \in Clients : GetRead(g)
  \/ \E g \in Clients : \E k \in owned[g] : \E v \in Values : \E ttl \in ConcTTLs : SetCall(g, k, v, ttl)
  \/ \E g \in Clients : SetLock(g)
  \/ \E g \in Clients : SetValue(g)
  \/ \E g \in Clients : SetExpires(g)
  \/ \E g \in Clients : \E k \in owned[g] : RemoveCall(g, k)
  \/ \E g \in Clients : RemoveDelete(g)
  \/ \E g \in Clients : owned[g] # {} /\ IsEmptyCall(g)
  \/ \E g \in Clients : IsEmptyRead(g)

SpecConc == InitConc /\ [][NextConc]_vars

\* New(ctx, expiration): an enumerating goroutine next to a writing one.
NextEnum ==
  \/ Tick
  \/ SweepTick
  \/ SweepScan
  \/ \E g \in Clients : \E k \in owned[g] : \E v \in Values : \E ttl \in TTLs : SetCall(g, k, v, ttl)
  \/ \E g \in Clients : SetValue(g)
  \/ \E g \in Clients : SetExpires(g)
  \/ \E g \in Clients : \E k \in owned[g] : RemoveCall(g, k)
  \/ \E g \in Clients : RemoveDelete(g)
  \/ \E g \in Clients : \E kind \in {"Keys", "Values", "All"} : owned[g] = {} /\ EnumCall(g, kind)
  \/ \E g \in Clients : \E k \in Keys : \E brk \in BOOLEAN : EnumVisit(g, k, brk)
  \/ \E g \in Clients : EnumEnd(g)

SpecEnum == InitEnum /\ [][NextEnum]_vars

\* The same, with loop bodies that call Get or Remove on the store.
NextBody ==
  \/ NextEnum
  \/ \E g \in Clients : \E k \in Keys : \E op \in {"Get", "Remove"} : BodyCall(g, k, op)
  \/ \E g \in Clients : BodyGetLock(g)
  \/ \E g \in Clients : BodyGetRead(g)
  \/ \E g \in Clients : BodyRemoveLock(g)

SpecBody == InitEnum /\ [][NextBody]_vars

\* ------------------------------------------------------------- scheduling
\* The Go scheduler runs every runnable goroutine, and a goroutine blocked in
\* Lock() is granted the mutex in the end (sync.Mutex hands a starved waiter
\* the lock).  The consumer of an iterator is taken to finish its loop body.
ClientStep(g) ==
  \/ GetRead(g)
  \/ SetLock(g)
  \/ SetValue(g)
  \/ SetExpires(g)
  \/ RemoveDelete(g)
  \/ IsEmptyRead(g)
  \/ \E k \in Keys : \E brk \in BOOLEAN : EnumVisit(g, k, brk)
  \/ EnumEnd(g)

ClientsRun == \A g \in Clients : WF_vars(ClientStep(g)) /\ SF_vars(SetLock(g))

ReadersRun == \A g \in Clients : WF_vars(ClientStep(g))

\* The ticker keeps firing and the sweeper's Lock() is granted in the end.
SweeperTicks == SF_vars(SweepTick) /\ WF_vars(SweepScan)

\* A select with ctx.Done() ready takes that case in the end.
SweeperEnds == WF_vars(SweepScan) /\ SF_vars(SweepDone) /\ WF_vars(SweepClear)

SpecFair == Spec /\ ClientsRun /\ SweeperTicks

SpecCtxFair == SpecCtx /\ ReadersRun /\ SweeperEnds

\* A Close in progress goes on: a select with a sender waiting on pantry.close
\* takes that case in the end, and Close's Lock() is granted in the end.
CloseRuns ==
  \A g \in Clients :
    SF_vars(CloseSend(g)) /\ SF_vars(CloseLock(g)) /\ WF_vars(CloseClear(g))

SpecCloseFair == SpecFair /\ CloseRuns

SpecConcFair == SpecConc /\ ClientsRun /\ WF_vars(SweepScan)

SpecEnumFair == SpecEnum /\ ReadersRun /\ WF_vars(SweepScan)

\* A call of the loop body goes on as soon as its lock can be had.
BodyRuns ==
  \A g \in Clients :
    WF_vars(BodyGetLock(g)) /\ WF_vars(BodyGetRead(g)) /\ SF_vars(BodyRemoveLock(g))

SpecBodyFair == SpecBody /\ ReadersRun /\ WF_vars(SweepScan) /\ BodyRuns

\* ------------------------------------------------------------- steps the claims speak of
GetReturns(g) == pc[g] = "get_read" /\ pc'[g] = "idle"

IsEmptyReturns(g) == pc[g] = "isempty_read" /\ pc'[g] = "idle"

RemoveReturns(g) == pc[g] = "remove_delete" /\ pc'[g] = "idle"

PersistReturns(g) == pc[g] = "idle" /\ ret[g].op \in {"Set", "Remove"} /\ ret'[g].op = "Persist"

CountReturns(g) == pc[g] = "count_read" /\ pc'[g] = "idle"

ClearReturns(g) == pc[g] = "clear_store" /\ pc'[g] = "idle"

SetReturns(g) == pc[g] = "set_expires" /\ pc'[g] = "idle"

LoadCalls(g) ==
  /\ pc[g] = "idle"
  /\ \/ pc'[g] = "load_read"
     \/ ret'[g].op = "Load" /\ (ret'[g] # ret[g] \/ dirExists' # dirExists)

\* A Persist of the Result the client held on to, not of its last call's.
PersistsKept(g) ==
  /\ pc[g] = "idle"
  /\ ret[g].op \notin {"Set", "Remove"}
  /\ ret'[g].op = "Persist"
  /\ swpc' = swpc
  /\ ret'[g] # ret[g] \/ disk' # disk

LoadReads(g) == pc[g] = "load_read" /\ pc'[g] = "load_lock"

LoadStores(g) == pc[g] = "load_store" /\ pc'[g] # "load_store"

LoadFails(g) == pc[g] = "load_read" /\ pc'[g] = "idle"

GetAllVisits(g, k) ==
  pc[g] = "getall_range" /\ k \notin loc[g].visited /\ k \in loc'[g].visited

GetAllReturns(g) == pc[g] = "getall_range" /\ pc'[g] = "idle"

\* A step of the enumeration of g: its call, one round of its loop, its return.
EnumSteps(g) ==
  \/ pc[g] = "idle" /\ pc'[g] = "enum_loop"
  \/ pc[g] \in {"enum_loop", "enum_break"} /\ (loc'[g] # loc[g] \/ pc'[g] # pc[g])

EnumReturns(g) == pc[g] \in {"enum_loop", "enum_break"} /\ pc'[g] = "idle"

\* The process is replaced by a new one.
Restarts ==
  /\ last' = [k \in Keys |-> [op |-> "Restart"]]
  /\ ret' = [g \in Clients |-> NoRet]
  /\ store' = EmptyStore
  /\ last' # last \/ ret' # ret \/ store' # store

\* The sweeper's scan of the map.
SweepScans == swpc = "sweep" /\ swpc' = "select" /\ ~Restarts

EnumKinds == {"Keys", "Values", "All"}

\* ------------------------------------------------------------- C1
\* C1: a Get(k) that returns while the last write that touched k is a
\* Set(k, v, ttl) and the clock is not past that Set's expiration returns
\* (v, true), whatever k held before the Set and whatever the sweeper did since.
C1_GetAfterSet ==
  [][\A g \in Clients :
       (/\ GetReturns(g)
        /\ last[loc[g].key].op = "Set"
        /\ now <= last[loc[g].key].item.Expires)
         => /\ ret'[g].found
            /\ ret'[g].value = last[loc[g].key].item.Value]_vars

\* A Get found the value of a Set whose expiration lies ahead (so its ttl was > 0).
C1_Witness ==
  \E g \in Clients :
    /\ ret[g].op = "Get" /\ ret[g].found
    /\ last[ret[g].key].op = "Set"
    /\ ret[g].value = last[ret[g].key].item.Value
    /\ now < last[ret[g].key].item.Expires

\* ------------------------------------------------------------- C2
\* C2: while the last write that touched k is a Remove(k), Get(k) returns
\* (zero value, false); Remove returns its Result and no error whether or not k
\* was there, touches no other key, and a Remove(k) straight after a Remove(k)
\* leaves the map as it was.
C2_GetAfterRemove ==
  [][\A g \in Clients :
       /\ (GetReturns(g) /\ last[loc[g].key].op = "Remove")
            => ~ret'[g].found /\ ret'[g].value = ZeroValue
       /\ RemoveReturns(g)
            => /\ loc[g].key \notin DOMAIN store'
               /\ ret'[g] = [op |-> "Remove", key |-> loc[g].key]
               /\ \A k \in Keys \ {loc[g].key} :
                    /\ (k \in DOMAIN store') = (k \in DOMAIN store)
                    /\ k \in DOMAIN store => store'[k] = store[k]
               /\ last[loc[g].key].op = "Remove" => store' = store]_vars

\* A Get missed a key whose last write is a Remove.
C2_Witness ==
  \E g \in Clients :
    /\ ret[g].op = "Get" /\ ~ret[g].found /\ ret[g].value = ZeroValue
    /\ last[ret[g].key].op = "Remove"

\* ------------------------------------------------------------- C3
\* C3: Get(k) returns (the stored value, true) exactly when k is in the map and
\* now <= its expiration, and (zero value, false) otherwise: an expired entry
\* still in the map reads like a key that is not there.
C3_GetResult ==
  [][\A g \in Clients :
       GetReturns(g) =>
         LET k == loc[g].key
         IN  /\ ret'[g].op = "Get" /\ ret'[g].key = k
             /\ IF k \in DOMAIN store /\ now <= store[k].Expires
                  THEN ret'[g].found /\ ret'[g].value = store[k].Value
                  ELSE ~ret'[g].found /\ ret'[g].value = ZeroValue]_vars

\* A Get returned (zero value, false) for an expired entry the map still holds.
C3_Witness ==
  \E g \in Clients :
    /\ ret[g].op = "Get" /\ ~ret[g].found /\ ret[g].value = ZeroValue
    /\ ret[g].key \in DOMAIN store
    /\ now > store[ret[g].key].Expires

\* ------------------------------------------------------------- C4
\* C4 as claimed: once a Get(k) has missed k at time t because its entry had
\* expired, every Get(k) at a time t' > t misses it until a new Set(k),
\* whatever sweep ticks,
\* Remove, Persist and Load calls come in between.
C4_Original ==
  [][\A g \in Clients :
       (/\ GetReturns(g)
        /\ sawExpired[loc[g].key] \in {"seen_earlier", "missed_again", "reloaded_earlier"})
         => ~ret'[g].found]_vars

\* C4 as amended: once a Get(k) has missed k at time t because its entry had
\* expired, every Get(k) at a time t' > t misses it until a new Set(k) or until
\* a Load stores k from its file, whatever sweep ticks, Remove and Persist
\* calls come in between.
C4_Monotonic ==
  [][\A g \in Clients :
       (/\ GetReturns(g)
        /\ sawExpired[loc[g].key] \in {"seen_earlier", "missed_again"})
         => ~ret'[g].found]_vars

\* A Get missed a key that a Get at an earlier time had found expired, with no
\* Set or Load of the key since.
C4_Witness ==
  \E g \in Clients :
    /\ ret[g].op = "Get" /\ ~ret[g].found
    /\ sawExpired[ret[g].key] = "missed_again"

\* ------------------------------------------------------------- C5
\* C5: an enumeration inspects each entry of the map once; it yields the entry
\* (its key, its value, or both, by the kind of enumeration) exactly when the
\* entry is live at that moment, and nothing for an expired one.  When the
\* range is exhausted every entry has been inspected, the result holds one
\* element per yielded key, and every entry live at the end has been yielded.
C5_Enumeration ==
  [][\A g \in Clients :
       /\ (pc[g] = "enum_loop" /\ pc'[g] # "idle" /\ loc'[g] # loc[g])
            => \E k \in (DOMAIN store) \ loc[g].visited :
                 /\ loc'[g].visited = loc[g].visited \cup {k}
                 /\ IF now <= store[k].Expires
                      THEN /\ k \notin loc[g].yielded
                           /\ loc'[g].yielded = loc[g].yielded \cup {k}
                           /\ loc'[g].out = Append(loc[g].out,
                                CASE loc[g].kind = "Keys" -> <<k>>
                                  [] loc[g].kind = "Values" -> <<store[k].Value>>
                                  [] loc[g].kind = "All" -> <<k, store[k].Value>>)
                      ELSE /\ loc'[g].yielded = loc[g].yielded
                           /\ loc'[g].out = loc[g].out
       /\ (pc[g] = "enum_loop" /\ pc'[g] = "idle")
            => /\ loc[g].visited = DOMAIN store
               /\ {k \in DOMAIN store : now <= store[k].Expires} \subseteq loc[g].yielded
               /\ ret'[g].out = loc[g].out
               /\ Len(ret'[g].out) = Cardinality(loc[g].yielded)]_vars

\* A complete enumeration of a map of two entries produced one element: one
\* entry was live and one expired.
C5_Witness ==
  \E g \in Clients :
    /\ ret[g].op \in EnumKinds /\ ~ret[g].broke
    /\ Cardinality(DOMAIN store) = 2
    /\ Len(ret[g].out) = 1
    /\ \E k \in DOMAIN store : now > store[k].Expires

\* ------------------------------------------------------------- C6
\* C6: with each goroutine on its own keys, every call that has started comes
\* back; whenever no Set is half-way through a key, the map holds for it what
\* the last Set or Remove of its owner left (the item of the Set, nothing
\* after a Remove, nothing once the sweeper has deleted the expired item of
\* the Set); and while a Get or an IsEmpty reads, every entry of the map is
\* the whole item of one Set.
C6_DisjointKeys ==
  /\ [](\A k \in Keys :
          (\A g \in Clients : ~(pc[g] = "set_expires" /\ loc[g].key = k))
            => IF k \in DOMAIN store
                 THEN last[k].op = "Set" /\ store[k] = last[k].item
                 ELSE \/ last[k].op \in {"none", "Remove"}
                      \/ last[k].op = "Set" /\ now > last[k].item.Expires)
  /\ [](\A g \in Clients :
          pc[g] \in {"get_read", "isempty_read"}
            => \A k \in DOMAIN store : last[k].op = "Set" /\ store[k] = last[k].item)
  /\ \A g \in Clients : (pc[g] # "idle") ~> (pc[g] = "idle")

\* A Get or IsEmpty of one goroutine reads the map, which holds the other
\* goroutine's key, while a Set of the other goroutine waits for the lock.
C6_Witness ==
  \E g \in Clients : \E h \in Clients \ {g} :
    /\ pc[g] \in {"get_read", "isempty_read"}
    /\ pc[h] = "set_value" /\ mutex.writer = h /\ ~mutex.held
    /\ loc[h].key \in DOMAIN store
    /\ last[loc[h].key].op = "Set"

\* ------------------------------------------------------------- C7
\* C7: while an enumeration is under way every entry of the map is the whole
\* item of one Set, whatever Set and Remove calls other goroutines have
\* started; and the enumeration and every such call come back.
C7_EnumerationConcurrent ==
  /\ [](\A g \in Clients :
          pc[g] \in {"enum_loop", "enum_break"}
            => \A k \in DOMAIN store : last[k].op = "Set" /\ store[k] = last[k].item)
  /\ \A g \in Clients : (pc[g] # "idle") ~> (pc[g] = "idle")

\* An enumeration has inspected an entry and has more to inspect while a Set or
\* Remove of another goroutine waits for the lock.
C7_Witness ==
  \E g \in Clients : \E h \in Clients \ {g} :
    /\ pc[g] = "enum_loop"
    /\ loc[g].visited # {} /\ loc[g].visited # DOMAIN store
    /\ pc[h] \in {"set_value", "remove_delete"}
    /\ mutex.writer = h /\ ~mutex.held

\* ------------------------------------------------------------- C8
\* C8: the sweeper leaves its loop only when the context has been cancelled;
\* the step that stops it leaves the map empty; once stopped it stays stopped
\* and never takes the lock again; and once the context is cancelled the
\* sweeper does stop.
C8_SweeperStops ==
  /\ [][(swpc \in {"select", "sweep"} /\ swpc' \notin {"select", "sweep"}) => ctxDone]_vars
  /\ [][(swpc # "stopped" /\ swpc' = "stopped") => ctxDone /\ store' = EmptyStore]_vars
  /\ [][swpc = "stopped" => swpc' = "stopped"]_vars
  /\ [](swpc = "stopped" => mutex.writer # "sw")
  /\ ctxDone ~> (swpc = "stopped")

\* The sweeper has stopped after a cancel and the map is empty although the
\* client's last call was a Set whose item has not expired.
C8_Witness ==
  /\ swpc = "stopped" /\ ctxDone /\ store = EmptyStore
  /\ \E g \in Clients :
       /\ ret[g].op = "Set"
       /\ now <= ret[g].item.Expires
       /\ last[ret[g].key].op = "Clear"

\* ------------------------------------------------------------- C9
\* C9: a sweep deletes exactly the entries that have expired and keeps the
\* others as they are; IsEmpty reports whether the map holds no entry, expired
\* ones counted; and while the sweeper runs, an expired entry of the map is, in
\* the end, gone from it or replaced by a live one.
C9_SweepDeletesExpired ==
  /\ [][(swpc = "sweep" /\ swpc' = "select")
          => /\ DOMAIN store' = {k \in DOMAIN store : now <= store[k].Expires}
             /\ \A k \in DOMAIN store' : store'[k] = store[k]]_vars
  /\ [][\A g \in Clients :
          IsEmptyReturns(g) => ret'[g].empty = (DOMAIN store = {})]_vars
  /\ \A k \in Keys :
       (k \in DOMAIN store /\ now > store[k].Expires)
         ~> (\/ k \notin DOMAIN store
             \/ k \in DOMAIN store /\ now <= store[k].Expires
             \/ swpc = "stopped")

\* IsEmpty reported true while the sweeper runs, and the last write of some key
\* is a Set whose item has expired: the sweep deleted it.
C9_Witness ==
  /\ swpc # "stopped" /\ store = EmptyStore
  /\ \E g \in Clients : ret[g].op = "IsEmpty" /\ ret[g].empty
  /\ \E k \in Keys : last[k].op = "Set" /\ now > last[k].item.Expires

\* ------------------------------------------------------------- C10
\* C10: what Load decodes from the file of k is the item of the Set outcome
\* that was persisted there, value and absolute expiration alike; Load stores
\* that item under k; and as long as the Load is the last write that touched
\* k, Get(k) answers as a store holding that item answers at that instant:
\* (value, true) while now <= its expiration, (zero value, false) after.
C10_RoundTrip ==
  [][\A g \in Clients :
       /\ LoadReads(g)
            => /\ loc'[g].key \in DOMAIN wrote
               /\ loc'[g].item.Value = wrote[loc'[g].key].Value
               /\ loc'[g].item.Expires = wrote[loc'[g].key].Expires
       /\ LoadStores(g)
            => /\ loc[g].key \in DOMAIN store'
               /\ store'[loc[g].key] = loc[g].item
       /\ (GetReturns(g) /\ last[loc[g].key].op = "Load")
            => IF now <= last[loc[g].key].item.Expires
                 THEN ret'[g].found /\ ret'[g].value = last[loc[g].key].item.Value
                 ELSE ~ret'[g].found /\ ret'[g].value = ZeroValue]_vars

\* After a restart, Load stored a key the fresh store had not touched, and a
\* Get found the persisted value, its expiration (not the zero one) still ahead.
C10_Witness ==
  \E g \in Clients :
    /\ ret[g].op = "Get" /\ ret[g].found
    /\ last[ret[g].key].op = "Load"
    /\ last[ret[g].key].over = "Restart"
    /\ ret[g].key \in DOMAIN wrote
    /\ wrote[ret[g].key] = last[ret[g].key].item
    /\ ret[g].value = wrote[ret[g].key].Value
    /\ wrote[ret[g].key].Expires # 0
    /\ now <= wrote[ret[g].key].Expires
\* ------------------------------------------------------------- C11
\* The store is fresh and has loaded its directory: since the restart nothing
\* but Load has written to it, and the last Load returned nil.
FreshLoaded ==
  /\ \A g \in Clients : pc[g] = "idle"
  /\ \E g \in Clients : ret[g].op = "Load" /\ ~ret[g].err
  /\ \A k \in Keys :
       \/ last[k].op = "Restart"
       \/ last[k].op = "Load" /\ last[k].over = "Restart"

\* C11 as stated: after any Set, Remove, Persist calls and sweep ticks, a fresh
\* store that has loaded the directory was given by Load an entry for every key
\* whose last successful Persist was of a set outcome, and holds no entry for
\* a key whose last successful Persist was of a remove outcome.
C11_Original ==
  FreshLoaded =>
    \A k \in audit :
      IF persisted[k] \in {"set", "stale"}
        THEN last[k].op = "Load"
        ELSE k \notin DOMAIN store

\* C11, amended: a fresh store that has loaded the directory holds for k exactly
\* the entry of the last successful Persist of a set outcome for k, provided
\* no sweep tick has deleted k's file since that Persist, and no entry if the
\* last successful Persist for k was of a remove outcome.
C11_Durability ==
  FreshLoaded =>
    \A k \in audit :
      CASE persisted[k] \in {"set", "stale"} /\ k \in DOMAIN files ->
             /\ last[k].op = "Load"
             /\ k \in DOMAIN store
             /\ store[k] = wrote[k]
        [] persisted[k] \in {"remove", "none"} ->
             /\ last[k].op = "Restart"
             /\ k \notin DOMAIN store
        [] OTHER -> k \in DOMAIN store => last[k].op = "Load"

C11_Witness ==
  /\ FreshLoaded
  /\ \E k \in audit :
       /\ persisted[k] = "set"
       /\ k \in DOMAIN files
       /\ k \in DOMAIN store
       /\ store[k] = wrote[k]
       /\ store[k].Expires # 0
\* ------------------------------------------------------------- C12
\* C12: Persist on an outcome of a store that has no persistence directory
\* returns the configuration error and does nothing else: no directory and no
\* file is created, and the in-memory store is what it was.
C12_NoDirectory ==
  [][\A g \in Clients :
       PersistReturns(g) /\ path = ""
         => /\ ret'[g].err
            /\ ~dirExists'
            /\ files' = EmptyStore
            /\ store' = store]_vars

C12_Witness ==
  \E g \in Clients :
    /\ path = ""
    /\ ret[g].op = "Persist"
    /\ ret[g].err
    /\ ret[g].key \in DOMAIN store
    /\ ~dirExists
    /\ files = EmptyStore
\* ------------------------------------------------------------- C13
\* C13: persisting a remove outcome for a key that has no backing file (never
\* persisted, deleted by an earlier remove-persist, or deleted by a sweep tick)
\* returns no error.
C13_RemoveMissingFile ==
  [][\A g \in Clients :
       /\ PersistReturns(g)
       /\ ret[g].op = "Remove"
       /\ path # ""
       /\ ret[g].key \notin DOMAIN files
       => ~ret'[g].err]_vars
\* ------------------------------------------------------------- C16
\* C16: Load on a store whose configured directory does not exist returns no
\* error and leaves the map as it was (the directory may be created); Load on
\* a store with no configured directory returns no error and changes nothing.
C16_LoadNothing ==
  [][\A g \in Clients :
       LoadCalls(g) /\ (path = "" \/ ~dirExists)
         => /\ pc'[g] = "idle"
            /\ ret'[g] = [op |-> "Load", err |-> FALSE]
            /\ store' = store
            /\ files' = files
            /\ path = "" => dirExists' = dirExists]_vars

C16_Witness ==
  \E g \in Clients :
    /\ path # ""
    /\ ret[g] = [op |-> "Load", err |-> FALSE]
    /\ dirExists
    /\ files = EmptyStore
    /\ store # EmptyStore
    /\ \A k \in Keys : last[k].op \in {"none", "Set"}
\* ------------------------------------------------------------- C19
\* C19: when the outcome of Set(k) has been persisted and then, with no other
\* operation on k in between, the outcome of Remove(k) is persisted, the second
\* Persist returns no error either and leaves no file for k.
C19_SetThenRemove ==
  [][\A g \in Clients :
       /\ PersistReturns(g)
       /\ ret[g].op = "Remove"
       /\ ret[g].key \in audit
       /\ last[ret[g].key].op = "Remove"
       /\ last[ret[g].key].after = "saved_set"
       => /\ ~ret'[g].err
          /\ ret[g].key \notin DOMAIN files']_vars
C15_NoPartialLoad ==
  [][\A g \in Clients :
       LoadFails(g)
         => \A k \in loc[g].visited :
              ~(/\ k \in DOMAIN store'
                /\ last[k].op = "Load"
                /\ last[k].over \in {"none", "Restart"})]_vars

\* ------------------------------------------------------------- C17
\* C17: Load stores the decoded item as it is, expired or not, and an entry
\* loaded with its expiration already passed is never returned as live: while
\* the Load is the last write that touched the key, Get misses it and GetAll
\* leaves it out.
C17_LoadedExpired ==
  [][\A g \in Clients :
       /\ LoadStores(g)
            => /\ loc[g].key \in DOMAIN store'
               /\ store'[loc[g].key].Expires = loc[g].item.Expires
               /\ last'[loc[g].key].item = store'[loc[g].key]
       /\ (GetReturns(g) /\ last[loc[g].key].op = "Load"
                          /\ now > last[loc[g].key].item.Expires)
            => ~ret'[g].found /\ ret'[g].value = ZeroValue
       /\ \A k \in Keys :
            (GetAllVisits(g, k) /\ last[k].op = "Load" /\ now > last[k].item.Expires)
              => k \notin DOMAIN loc'[g].out
       /\ GetAllReturns(g) => ret'[g].items = loc[g].out]_vars

\* Load has stored an entry that was already expired when it was persisted,
\* the sweeper has not come by, and a Get of the key has missed.
C17_Witness ==
  \E g \in Clients :
    /\ ret[g].op = "Get" /\ ~ret[g].found
    /\ last[ret[g].key].op = "Load"
    /\ ret[g].key \in DOMAIN store
    /\ store[ret[g].key] = last[ret[g].key].item
    /\ store[ret[g].key].Expires < 0
\* ------------------------------------------------------------- C18
\* C18: a set outcome persists the item its Set captured, not what the map
\* holds at the time of the Persist: persisted after a later Set or Remove
\* of the same key, it returns nil, leaves the map alone and leaves the file
\* holding the older item; and a Load on a fresh store puts that item back.
C18_StaleSnapshot ==
  [][\A g \in Clients :
       /\ (PersistsKept(g) /\ kept[g].op = "Set")
            => /\ ~ret'[g].err
               /\ store' = store
               /\ kept[g].key \in DOMAIN files'
               /\ Decode(files'[kept[g].key]) = kept[g].item
               /\ persisted'[kept[g].key] = "stale"
                    <=> ~(last[kept[g].key].op = "Set" /\ last[kept[g].key].item = kept[g].item)
       /\ (LoadStores(g) /\ persisted[loc[g].key] = "stale" /\ loc[g].key \in DOMAIN wrote
                          /\ last[loc[g].key].op = "Restart")
            => /\ loc[g].key \in DOMAIN store'
               /\ store'[loc[g].key] = wrote[loc[g].key]]_vars

\* The fresh store holds, from Load, the item of a Set outcome that was
\* persisted when the key's last write was no longer that Set.
C18_Witness ==
  /\ FreshLoaded
  /\ \E k \in audit :
       /\ persisted[k] = "stale"
       /\ k \in DOMAIN wrote
       /\ k \in DOMAIN store
       /\ store[k] = wrote[k]
       /\ last[k].op = "Load"
\* ------------------------------------------------------------- C20
\* C20: IsEmpty returns true exactly when the map has zero entries, an expired
\* entry the sweeper has not deleted yet counted as an entry: it returns true
\* on a store nothing has been written to, and false on a store whose entries
\* have all expired, though Get misses each of them.
C20_IsEmpty ==
  [][\A g \in Clients :
       /\ IsEmptyReturns(g)
            => /\ ret'[g].empty <=> Cardinality(DOMAIN store) = 0
               /\ (\A k \in Keys : last[k].op = "none") => ret'[g].empty
               /\ (\E k \in DOMAIN store : now > store[k].Expires) => ~ret'[g].empty
       /\ (GetReturns(g) /\ loc[g].key \in DOMAIN store
                          /\ now > store[loc[g].key].Expires)
            => ~ret'[g].found]_vars

\* IsEmpty returned false on a map that held nothing but entries born expired.
C20_Witness ==
  \E g \in Clients :
    /\ ret[g] = [op |-> "IsEmpty", empty |-> FALSE]
    /\ store # EmptyStore
    /\ \A k \in DOMAIN store : store[k].Expires < 0

\* ------------------------------------------------------------- C21
\* C21: a Get of a key whose item has expired returns false and removes the
\* item from the map, so that the item is no longer stored after the Get.
C21_GetRemovesExpired ==
  [][\A g \in Clients :
       (GetReturns(g) /\ loc[g].key \in DOMAIN store
                      /\ now > store[loc[g].key].Expires)
         => /\ ~ret'[g].found
            /\ loc[g].key \notin DOMAIN store']_vars

\* ------------------------------------------------------------- C22
\* The ttl of the Set that stored the value v, for a client that sets as NonPositive says.
TTLOf(v) == (CHOOSE s \in NonPositive : s.value = v).ttl

\* C22 as stated: the item of a Set with a zero or negative ttl is expired at
\* once; a Get of the key that returns while that Set is the last write that
\* touched it returns false, at the instant of the Set as at any later one.
C22_Original ==
  [][\A g \in Clients :
       (GetReturns(g) /\ last[loc[g].key].op = "Set") => ~ret'[g].found]_vars

\* C22, amended: a Get of the key that returns while a Set with a negative ttl
\* is the last write that touched it returns (zero value, false); while it is
\* a Set with a zero ttl, Get returns (zero value, false) once the clock has
\* moved past the instant of the Set and (value, true) at that instant.
C22_ImmediatelyExpired ==
  [][\A g \in Clients :
       (GetReturns(g) /\ last[loc[g].key].op = "Set")
         => LET it == last[loc[g].key].item
            IN  IF TTLOf(it.Value) < 0 \/ now # it.Expires
                  THEN ~ret'[g].found /\ ret'[g].value = ZeroValue
                  ELSE ret'[g].found /\ ret'[g].value = it.Value]_vars

\* A Get missed an entry set with a zero ttl, still in the map, after the clock moved on.
C22_Witness ==
  \E g \in Clients :
    /\ ret[g].op = "Get" /\ ~ret[g].found
    /\ last[ret[g].key].op = "Set"
    /\ TTLOf(last[ret[g].key].item.Value) = 0
    /\ ret[g].key \in DOMAIN store
    /\ store[ret[g].key] = last[ret[g].key].item
    /\ now > store[ret[g].key].Expires

\* ------------------------------------------------------------- C23
\* C23: no step of Keys, Values or All changes the map: an expired entry is
\* passed over and stays where it is, so the entries of the map, and with them
\* what IsEmpty answers, are the same after every step of an enumeration,
\* whether it runs to the end or is broken off.
C23_EnumerationFrame ==
  [][\A g \in Clients :
       EnumSteps(g)
         => /\ store' = store
            /\ (store' = EmptyStore) <=> (store = EmptyStore)]_vars

\* An enumeration was broken off after it had passed over an expired entry,
\* and the expired entry is still in the map.
C23_Witness ==
  \E g \in Clients :
    /\ ret[g].op \in EnumKinds /\ ret[g].broke
    /\ \E k \in DOMAIN store : now > store[k].Expires /\ last[k].op = "Set"
    /\ Len(ret[g].out) = 1

\* ------------------------------------------------------------- C24
\* C24: an enumeration releases its read lock when it returns, broken off
\* after an element or run to the end alike: a goroutine that is in no call
\* holds no read lock, and a Set, a Remove or a sweep that has asked for the
\* lock gets it and completes.
C24_BreakReleases ==
  /\ [][\A g \in Clients : EnumReturns(g) => mutex'.readers[g] = 0]_vars
  /\ [](\A g \in Clients : pc[g] = "idle" => mutex.readers[g] = 0)
  /\ \A h \in Clients :
       (pc[h] \in {"set_value", "remove_delete"} /\ mutex.writer = h) ~> (pc[h] = "idle")
  /\ (swpc = "sweep") ~> (swpc = "select")

\* One goroutine broke its enumeration off after the first element, and the
\* Set of another now holds the lock.
C24_Witness ==
  \E g \in Clients : \E h \in Clients \ {g} :
    /\ ret[g].op \in EnumKinds /\ ret[g].broke /\ Len(ret[g].out) = 1
    /\ pc[g] = "idle"
    /\ pc[h] = "set_value" /\ HoldsLock(mutex, h)

\* ------------------------------------------------------------- C27
\* C27: a sweep deletes exactly the expired entries.  After the scan the map
\* holds no entry whose expiration lies before the time of the scan, and an
\* entry is still there, value and expiration unchanged, exactly when a Get at
\* that instant would have found it; Get itself finds an entry exactly when
\* its expiration does not lie before the time of the Get.
C27_SweepAgreesWithGet ==
  [][/\ SweepScans
          => /\ DOMAIN store' \subseteq DOMAIN store
             /\ \A k \in DOMAIN store' : ~(store'[k].Expires < now)
             /\ \A k \in DOMAIN store :
                  IF GetResult(store, k, now).found
                    THEN k \in DOMAIN store' /\ store'[k] = store[k]
                    ELSE k \notin DOMAIN store'
     /\ \A g \in Clients :
          GetReturns(g)
            => (ret'[g].found <=> /\ loc[g].key \in DOMAIN store
                                  /\ ~(store[loc[g].key].Expires < now))]_vars

\* The sweeper is between two ticks; it has deleted the expired item of one
\* Set and the map holds an item that is at its expiration.
C27_Witness ==
  /\ swpc = "select"
  /\ \E k \in Keys : /\ last[k].op = "Set"
                     /\ last[k].item.Expires < now
                     /\ k \notin DOMAIN store
  /\ \E k \in DOMAIN store : store[k].Expires = now /\ now > 0

\* ------------------------------------------------------------- C28
\* C28: a sweep evicts every expired key from the map whether or not the key
\* has a file to delete, tells no caller about it and goes back to waiting
\* for the next tick; with persistence on, the files of the evicted keys, and
\* no others, are gone after the scan; with persistence off the scan leaves
\* the disk alone.
C28_SweepDeletesFiles ==
  [][SweepScans
       => LET gone == {k \in DOMAIN store : store[k].Expires < now}
          IN  /\ DOMAIN store' = (DOMAIN store) \ gone
              /\ ret' = ret /\ pc' = pc
              /\ swpc' = "select"
              /\ dirExists' = dirExists
              /\ IF path # ""
                   THEN /\ DOMAIN files' = (DOMAIN files) \ gone
                        /\ \A k \in DOMAIN files' : files'[k] = files[k]
                   ELSE files' = files]_vars

\* The sweeper is between two ticks; the file a Persist wrote for a key is gone,
\* the key's expired item with it, and no Persist has removed it.
C28_Witness ==
  /\ swpc = "select"
  /\ path # ""
  /\ \E k \in audit :
       /\ persisted[k] = "set"
       /\ last[k].op = "Set" /\ last[k].saved
       /\ last[k].item.Expires < now
       /\ k \notin DOMAIN files
       /\ k \notin DOMAIN store

\* ------------------------------------------------------------- C25
\* C25: Clear empties the map while it holds the write lock; as long as the
\* Clear is the last write, IsEmpty answers true, Count answers 0 and Get of
\* any key answers (zero value, false); and a Set after the Clear stores its
\* item as on a new store.
C25_Clear ==
  [][\A g \in Clients :
       /\ ClearReturns(g)
            => /\ mutex.writer = g /\ mutex.held /\ \A h \in Clients : mutex.readers[h] = 0
               /\ store' = EmptyStore
       /\ (IsEmptyReturns(g) /\ \A k \in Keys : last[k].op = "Clear") => ret'[g].empty
       /\ (CountReturns(g) /\ \A k \in Keys : last[k].op = "Clear") => ret'[g].n = 0
       /\ (GetReturns(g) /\ last[loc[g].key].op = "Clear")
            => ~ret'[g].found /\ ret'[g].value = ZeroValue
       /\ SetReturns(g)
            => /\ loc[g].key \in DOMAIN store'
               /\ store'[loc[g].key] = loc[g].item]_vars

\* The sweeper still runs, a key has not been written since a Clear, and a Get
\* has found the value that a Set after the Clear gave another key.
C25_Witness ==
  /\ swpc # "stopped"
  /\ \E k \in Keys : last[k].op = "Clear"
  /\ \E g \in Clients :
       /\ ret[g].op = "Get" /\ ret[g].found
       /\ last[ret[g].key].op = "Set"
       /\ ret[g].value = last[ret[g].key].item.Value

\* ------------------------------------------------------------- C29
\* A goroutine is inside the map as a writer: it holds the write lock between
\* Lock() and Unlock().
WriterInside(g) ==
  /\ HoldsLock(mutex, g)
  /\ IF g = "sw" THEN swpc \in {"sweep", "clear", "remove_delete"}
                 ELSE pc[g] \in {"set_value", "set_expires", "remove_delete", "clear_store",
                                 "close_clear", "load_store"}

\* A goroutine is inside the map as a reader: a client holds the read lock;
\* the sweeper is in its range over the map.
ReaderInside(g) ==
  IF g = "sw" THEN swpc = "range" ELSE mutex.readers[g] > 0

\* C29: no state is reachable in which a writer is inside the entry map
\* together with any other reader or writer; the sweep's scan of the map
\* counts as an access of the map.
C29_MutualExclusion ==
  \A w \in Goroutines : \A x \in Goroutines \ {w} :
    ~(WriterInside(w) /\ (WriterInside(x) \/ ReaderInside(x)))

\* ------------------------------------------------------------- C30
\* What a goroutine holds of the lock.
Holds(m, g) == (IF g \in Clients THEN m.readers[g] ELSE 0) + (IF m.writer = g THEN 1 ELSE 0)

\* C30: a goroutine that asks for the lock, or waits for it, holds nothing of
\* it, and after any acquisition it holds the lock once: Contains around Get,
\* the sweeper around Remove, Load, Close and the iterators never take the
\* lock inside the lock.
C30_NoNestedLock ==
  /\ [](\A g \in Clients :
          pc[g] \in {"idle", "set_lock", "close_send", "close_lock", "load_read", "load_lock"}
            => Holds(mutex, g) = 0)
  /\ [](swpc \in {"select", "range", "remove_lock", "stopped"} => Holds(mutex, "sw") = 0)
  /\ [][\A g \in Goroutines :
          Holds(mutex', g) > Holds(mutex, g) => Holds(mutex, g) = 0 /\ Holds(mutex', g) = 1]_vars

\* The sweeper that ranges over the map is inside the Remove it called, with
\* the write lock, for a key it has found expired.
C30_Witness ==
  /\ variant = "getall"
  /\ swpc = "remove_delete"
  /\ HoldsLock(mutex, "sw")
  /\ loc["sw"].key \in loc["sw"].visited

\* ------------------------------------------------------------- C26
\* A step of the second store: every step of this one moves the clock, the
\* lock, a goroutine or a result.
PeerSteps == UNCHANGED <<now, mutex, pc, swpc, ret>>

\* The entries of a directory that hold a value out of vals: this store is
\* given the values of DiskValues, the second store the others.
EntriesOf(f, vals) ==
  [k \in {x \in DOMAIN f : \E v \in vals : <<"Value", v>> \in f[x].fields} |-> f[k]]

\* C26 as stated: no step of one store changes the map, the Get results or
\* the persisted entries of the other, whatever their persistence paths.
C26_Original ==
  [][/\ PeerSteps
          => /\ store' = store
             /\ \A k \in Keys : GetResult(store', k, now') = GetResult(store, k, now)
             /\ EntriesOf(files', DiskValues) = EntriesOf(files, DiskValues)
     /\ ~PeerSteps
          => /\ peer'.store = peer.store
             /\ EntriesOf(PeerFiles', Values \ DiskValues)
                  = EntriesOf(PeerFiles, Values \ DiskValues)]_vars

\* C26: no step of one store changes the map or the Get results of the other,
\* and none changes the persisted entries of the other unless both stores
\* were given the same persistence path.
C26_Independent ==
  [][/\ PeerSteps
          => /\ store' = store
             /\ \A k \in Keys : GetResult(store', k, now') = GetResult(store, k, now)
             /\ peer.path # path
                  => EntriesOf(files', DiskValues) = EntriesOf(files, DiskValues)
     /\ ~PeerSteps
          => /\ peer'.store = peer.store
             /\ peer.path # path
                  => EntriesOf(PeerFiles', Values \ DiskValues)
                       = EntriesOf(PeerFiles, Values \ DiskValues)]_vars

\* The two stores have different directories and both have persisted the same
\* key; the second store's sweeper has since evicted its entry and removed its
\* file, and this store still has its entry and its file.
C26_Witness ==
  /\ peer.path # path
  /\ peer.dirExists /\ ~peer.closed
  /\ "k1" \notin DOMAIN peer.store
  /\ "k1" \notin DOMAIN peer.files
  /\ "k1" \in DOMAIN store
  /\ "k1" \in DOMAIN files
  /\ files["k1"] = Encode(store["k1"])

\* ------------------------------------------------------------- C31
\* C31: every call to Close returns, the sweeper stopped and the map cleared,
\* a second call on the same store included.
C31_CloseTerminates ==
  \A g \in Clients :
    (pc[g] \in {"close_send", "close_lock", "close_clear"})
      ~> (pc[g] = "idle" /\ ret[g].op = "Close" /\ swpc = "stopped")

\* ------------------------------------------------------------- C32
\* C32: an enumeration whose loop body calls Get or Remove on the store comes
\* to its end, with other goroutines writing and the sweeper ticking.
C32_BodyTerminates ==
  \A g \in Clients :
    (pc[g] \in {"enum_loop", "enum_break", "body_get_lock", "body_get_read",
                "body_remove_lock", "body_remove_wait"})
      ~> (pc[g] = "idle")

Mutating(k) ==
  \E g \in Clients :
    pc[g] \in {"set_lock", "set_value", "set_expires", "remove_delete"} /\ loc[g].key = k

\* The file of k exists and decodes to the entry the map holds for k.
FileAgrees(k) == k \in DOMAIN files /\ Decode(files[k]) = store[k]

\* C34: with callers that keep the discipline, an audited key that is in the
\* map has a file that decodes to its entry, value and expiration alike,
\* whenever no Set or Remove of the key is in progress and no outcome of the
\* key is waiting for its Persist.
C34_Agreement ==
  \A k \in audit :
    (path # "" /\ ~Mutating(k) /\ k \in DOMAIN store /\ Settled(k)) => FileAgrees(k)


\* ------------------------------------------------------------- C35
\* C35: Load visits every file the directory holds when it is called, in turn;
\* for each it stores under the file's name the item the file decodes to,
\* whatever the map held for that key, and leaves every other key of the map
\* as it is; it returns nil when the last file has been stored.
C35_LoadReplaces ==
  [][\A g \in Clients :
       /\ (LoadCalls(g) /\ pc'[g] = "load_read")
            => {loc'[g].todo[i] : i \in 1..Len(loc'[g].todo)} = DOMAIN files
       /\ LoadReads(g)
            => /\ loc'[g].key = Head(loc[g].todo)
               /\ loc'[g].key \in DOMAIN files
               /\ loc'[g].item = Decode(files[loc'[g].key])
       /\ LoadStores(g)
            => /\ loc[g].key \in DOMAIN store'
               /\ store'[loc[g].key] = loc[g].item
               /\ \A x \in Keys \ {loc[g].key} :
                    /\ x \in DOMAIN store' <=> x \in DOMAIN store
                    /\ x \in DOMAIN store => store'[x] = store[x]
               /\ IF Tail(loc[g].todo) = << >>
                    THEN ret'[g] = [op |-> "Load", err |-> FALSE]
                    ELSE pc'[g] = "load_read" /\ loc'[g].todo = Tail(loc[g].todo)]_vars

\* Load has returned nil: over the Set of one key it has stored the item of
\* that key's file, and another key, which has no file, still holds the item
\* of its Set.
C35_Witness ==
  \E g \in Clients : \E k \in Keys : \E x \in Keys \ {k} :
    /\ ret[g] = [op |-> "Load", err |-> FALSE]
    /\ last[k].op = "Load" /\ last[k].over = "Set"
    /\ k \in DOMAIN files /\ k \in DOMAIN store
    /\ store[k] = Decode(files[k])
    /\ x \notin DOMAIN files
    /\ last[x].op = "Set"
    /\ x \in DOMAIN store /\ store[x] = last[x].item
====
